---------------------------- MODULE Spec2Model ----------------------------
(***************************************************************************)
(* A model of the ss-ecdsa-poc two-party scriptless ECDSA swap: the        *)
(* Alice/Bob typestate machines (alice.rs, bob.rs), the Fiat-Shamir sigma  *)
(* proof engine (nizk_sigma_proof.rs), the committed NIZK wrapper          *)
(* (commited_nizk.rs), the wire conversions (messages.rs) and the ECDSA    *)
(* helpers (ecdsa.rs), driven as in bin/ss_ecdsa_poc.rs.                   *)
(*                                                                         *)
(* secp256k1 is scaled down to the curve y^2 = x^3 + 2 over F_13, a group  *)
(* of prime order 19 in which every affine x-coordinate is non-zero and    *)
(* below the group order.  Points are affine coordinate pairs and the      *)
(* group law is the chord-and-tangent law.  A byte is a base-5 digit and a *)
(* 32-byte field is a 2-digit field.                                       *)
(***************************************************************************)
EXTENDS Integers, Sequences, FiniteSets, TLC

\* Body applied to the value of v, computed once (a let binding by value).
Bind(v, Body(_)) == CHOOSE out \in {Body(x) : x \in {v}} : TRUE

(***************************************************************************)
(* Curve parameters (the external curve library behind FE and GE).         *)
(***************************************************************************)
FieldP == 13

CurveB == 2

Q == 19

ByteBase == 5

CoordLen == 2

Scalars == 0 .. (Q - 1)

NonZeroScalars == 1 .. (Q - 1)

FieldElems == 0 .. (FieldP - 1)

\* GE has no affine coordinates for the neutral element; <<0, 0>> is off the curve.
Infinity == <<0, 0>>

FieldInvTable == [a \in 1 .. (FieldP - 1) |-> CHOOSE i \in 1 .. (FieldP - 1) : (a * i) % FieldP = 1]

FieldInv(a) == FieldInvTable[a % FieldP]

OnCurve(pt) == (pt[2] * pt[2]) % FieldP = (pt[1] * pt[1] * pt[1] + CurveB) % FieldP

CurvePoints == {pt \in FieldElems \X FieldElems : OnCurve(pt)}

Points == CurvePoints \cup {Infinity}

\* Chord-and-tangent addition on affine points.
PointAddRaw(p1, p2) ==
    IF p1 = Infinity THEN p2
    ELSE IF p2 = Infinity THEN p1
    ELSE IF p1[1] = p2[1] /\ (p1[2] + p2[2]) % FieldP = 0 THEN Infinity
    ELSE LET lam == IF p1 = p2
                    THEN (3 * p1[1] * p1[1] * FieldInv(2 * p1[2])) % FieldP
                    ELSE ((p2[2] - p1[2]) * FieldInv(p2[1] - p1[1])) % FieldP
             x3 == (lam * lam - p1[1] - p2[1]) % FieldP
         IN <<x3, (lam * (p1[1] - x3) - p1[2]) % FieldP>>

AddTable == [p1 \in Points |-> [p2 \in Points |-> PointAddRaw(p1, p2)]]

\* GE + GE
PointAdd(p1, p2) == AddTable[p1][p2]

RECURSIVE MulRaw(_, _)
MulRaw(pt, s) == IF s = 0 THEN Infinity ELSE PointAdd(MulRaw(pt, s - 1), pt)

MulTable == [pt \in Points |-> [s \in Scalars |-> MulRaw(pt, s)]]

\* GE * FE
PointMul(pt, s) == MulTable[pt][s]

\* GE::generator()
G == <<1, 4>>

\* x_coor() / y_coor()
XCoor(pt) == pt[1]

YCoor(pt) == pt[2]

(***************************************************************************)
(* Scalars modulo the group order (FE).                                    *)
(***************************************************************************)
\* ECScalar::from(&BigInt): reduction modulo q.
ScalarFrom(n) == n % Q

SAdd(a, b) == (a + b) % Q

SMul(a, b) == (a * b) % Q

SNeg(a) == (Q - a) % Q

InvTable == [a \in NonZeroScalars |-> CHOOSE i \in NonZeroScalars : (a * i) % Q = 1]

\* FE::invert()
SInv(a) == InvTable[a]

(***************************************************************************)
(* ecdsa.rs                                                                *)
(***************************************************************************)
\* BigInt::to_vec: the minimal big-endian byte string of n.
RECURSIVE ToVec(_)
ToVec(n) == IF n = 0 THEN <<>> ELSE Append(ToVec(n \div ByteBase), n % ByteBase)

\* [0..32].copy_from_slice(src) aborts unless src is exactly as long as the field.
CopyFromSliceOk(src) == Len(src) = CoordLen

\* Signature::from_compact: both halves must be below the group order.
FromCompactOk(rx, s) == rx < Q /\ s < Q

\* Secp256k1::verify: rejects r = 0, s = 0 and high s, then checks
\* x-coord(m/s * G + r/s * X) = r (mod q).
SecpVerify(m, rx, s, X) ==
    /\ rx # 0
    /\ s # 0
    /\ s <= Q - s
    /\ X # Infinity
    /\ LET u1 == SMul(m, SInv(s))
           u2 == SMul(rx, SInv(s))
           Rv == PointAdd(PointMul(G, u1), PointMul(X, u2))
       IN Rv # Infinity /\ XCoor(Rv) % Q = rx

\* ecdsa::verify; "panic" when the slice copy or the unwrap aborts.
EcdsaVerify(m, rx, s, X) ==
    IF ~CopyFromSliceOk(ToVec(rx)) THEN "panic"
    ELSE IF ~FromCompactOk(rx, s) THEN "panic"
    ELSE IF SecpVerify(m, rx, s, X) THEN "true"
    ELSE "false"

\* The low-s form of s.
LowS(s) == IF s > Q - s THEN Q - s ELSE s

\* A faulty normalize_and_verify: neither normalises s nor verifies.
AcceptUnverified(m, X, s, R) == [res |-> "Ok", Rx |-> XCoor(R), s |-> s]

\* ecdsa::normalize_and_verify
NormalizeAndVerify(m, X, s, R) ==
    LET s1 == ScalarFrom(LowS(s))
        Rx == XCoor(R)
        v  == EcdsaVerify(m, Rx, s1, X)
    IN IF v = "panic" THEN [res |-> "Panic", Rx |-> Rx, s |-> s1]
       ELSE IF v = "false" THEN [res |-> "Err", Rx |-> Rx, s |-> s1]
       ELSE [res |-> "Ok", Rx |-> Rx, s |-> s1]

(***************************************************************************)
(* messages.rs: the two fixed transaction digests, as scalars.             *)
(***************************************************************************)
beta_redeem_tx == 7

beta_refund_tx == 11

(***************************************************************************)
(* The transcript (merlin) and its random generator.  A transcript is the  *)
(* sequence of what it absorbed; the bytes it outputs for a challenge are  *)
(* identified with the transcript that produced them.                      *)
(***************************************************************************)
\* Transcript::new(label)
NewTranscript(label) == << <<"dom-sep", label>> >>

\* Transcript::append_message
AppendMessage(T, label, data) == Append(T, <<label, data>>)

\* challenge_bytes reading from a new transcript: the output forgets what was absorbed.
ChallengeBytesForgetful(T, label) ==
    [bytes |-> << <<"challenge_bytes", label>> >>,
     transcript |-> Append(T, <<"challenge_bytes", label>>)]

\* Transcript::challenge_bytes: the output and the transcript after it.
ChallengeBytes(T, label) ==
    Bind(Append(T, <<"challenge_bytes", label>>),
         LAMBDA T1 : [bytes |-> T1, transcript |-> T1])

\* PublicKey::serialize: the compressed encoding (parity tag, x).
Serialize(pt) == <<2 + (YCoor(pt) % 2), XCoor(pt)>>

PointLabels == {"g", "gx", "h", "hx", "gr", "hr"}

\* A number read off the absorbed points of a transcript.
RECURSIVE TranscriptWeight(_, _)
TranscriptWeight(T, i) ==
    IF i > Len(T) THEN 0
    ELSE (IF T[i][1] \in PointLabels
          THEN i * (T[i][2][1] * FieldP + T[i][2][2])
          ELSE i) + TranscriptWeight(T, i + 1)

\* BigInt::from(&bytes[..]) of challenge bytes: a non-zero integer.
BytesToInt(bytes) == 1 + (TranscriptWeight(bytes, 1) % (Q - 1))

\* TranscriptRng: the generator state after seeding with the transcript, the
\* witness bytes and the system entropy.
RngSeed(T, xs, entropy) ==
    LET sumx[i \in 0 .. Len(xs)] == IF i = 0 THEN 0 ELSE sumx[i - 1] + xs[i]
    IN (entropy + Len(T) + sumx[Len(xs)]) % 324

RngNext(state) == (13 * state + 5) % 324

\* fill_bytes of a 32-byte buffer, read as an integer (never a multiple of q).
RngBytes(state) == 1 + (state % (Q - 1))

\* SSEcdsaTranscript::rng
TranscriptRng(T, entropy) == RngSeed(T, <<>>, entropy)

\* KeyPair (From<FE>)
KeyPairFrom(sk) == [secret_key |-> sk, public_key |-> PointMul(G, sk)]

\* KeyPair::new_random
KeyPairNewRandom(state) == KeyPairFrom(ScalarFrom(RngBytes(state)))

\* The generator state after n draws.
RECURSIVE RngState(_, _)
RngState(seed, n) == IF n = 0 THEN seed ELSE RngNext(RngState(seed, n - 1))

\* The n-th 32-byte draw of a generator seeded with seed.
RngDraw(seed, n) == RngBytes(RngState(seed, n))

(***************************************************************************)
(* nizk_sigma_proof.rs                                                     *)
(***************************************************************************)
SchnorrKind(g) == [tag |-> "Schnorr", g |-> g]

DDHKind(g, h) == [tag |-> "DDH", g |-> g, h |-> h]

\* StatementKind::gen_commitment
GenCommitment(kind, r) ==
    IF kind.tag = "Schnorr"
    THEN [tag |-> "Schnorr", gr |-> PointMul(kind.g, r)]
    ELSE [tag |-> "DDH", gr |-> PointMul(kind.g, r), hr |-> PointMul(kind.h, r)]

\* recover_commitment adding the challenge multiple instead of subtracting it.
RecoverCommitmentWrongSign(statement, minus_c, s) ==
    IF statement.tag = "Schnorr"
    THEN [tag |-> "Schnorr",
          gr  |-> PointAdd(PointMul(statement.g, s), PointMul(statement.gx, SNeg(minus_c)))]
    ELSE [tag |-> "DDH",
          gr  |-> PointAdd(PointMul(statement.g, s), PointMul(statement.gx, SNeg(minus_c))),
          hr  |-> PointAdd(PointMul(statement.h, s), PointMul(statement.hx, SNeg(minus_c)))]

\* Statement::recover_commitment
RecoverCommitment(statement, minus_c, s) ==
    IF statement.tag = "Schnorr"
    THEN [tag |-> "Schnorr",
          gr  |-> PointAdd(PointMul(statement.g, s), PointMul(statement.gx, minus_c))]
    ELSE [tag |-> "DDH",
          gr  |-> PointAdd(PointMul(statement.g, s), PointMul(statement.gx, minus_c)),
          hr  |-> PointAdd(PointMul(statement.h, s), PointMul(statement.hx, minus_c))]

\* Witness::to_statement
ToStatement(w) ==
    IF w.kind.tag = "Schnorr"
    THEN [label |-> w.label,
          statement |-> [tag |-> "Schnorr", g |-> w.kind.g, gx |-> PointMul(w.kind.g, w.x)]]
    ELSE [label |-> w.label,
          statement |-> [tag |-> "DDH", g |-> w.kind.g, gx |-> PointMul(w.kind.g, w.x),
                         h |-> w.kind.h, hx |-> PointMul(w.kind.h, w.x)]]

\* KeyGenTranscript::add_point
AddPoint(T, label, pt) == AppendMessage(T, label, Serialize(pt))

\* start_proof absorbing the domain separator without the proof label.
StartProofIgnoresLabel(T, label) == AppendMessage(T, "comit-nizk-sigma-proof/1.0", "")

\* start_proof under the label Transcript::new uses for the application.
StartProofUnderDomSep(T, label) == AppendMessage(T, "dom-sep", label)

\* KeyGenTranscript::start_proof
StartProof(T, label) == AppendMessage(T, "comit-nizk-sigma-proof/1.0", label)

\* KeyGenTranscript::add_statement
AddStatement(T, ls) ==
    IF ls.statement.tag = "Schnorr"
    THEN AddPoint(AddPoint(AppendMessage(T, "sch", ls.label),
                           "g", ls.statement.g), "gx", ls.statement.gx)
    ELSE AddPoint(AddPoint(AddPoint(AddPoint(AppendMessage(T, "ddh", ls.label),
                           "g", ls.statement.g), "gx", ls.statement.gx),
                           "h", ls.statement.h), "hx", ls.statement.hx)

\* KeyGenTranscript::add_commitment
AddCommitment(T, label, commitment) ==
    IF commitment.tag = "Schnorr"
    THEN AddPoint(AppendMessage(T, "comm-sch", label), "gr", commitment.gr)
    ELSE AddPoint(AddPoint(AppendMessage(T, "comm-ddh", label), "gr", commitment.gr),
                  "hr", commitment.hr)

\* KeyGenTranscript::get_challenge: the scalar read off the challenge bytes,
\* kept together with the bytes it was read from.
GetChallenge(T, label) ==
    Bind(ChallengeBytes(T, label),
         LAMBDA cb : [challenge  |-> [pre |-> cb.bytes,
                                      val |-> ScalarFrom(BytesToInt(cb.bytes))],
                      transcript |-> cb.transcript])

\* The secret scalars of a witness list.
WitnessScalars(witnesses) == [i \in 1 .. Len(witnesses) |-> witnesses[i].x]

\* GenRngFromWitness::gen_rng_from_witness
GenRngFromWitness(T, witnesses, entropy) == RngSeed(T, WitnessScalars(witnesses), entropy)

\* The statements of prove, absorbed in witness order.
RECURSIVE AddStatements(_, _, _)
AddStatements(T, statements, i) ==
    IF i > Len(statements) THEN T
    ELSE AddStatements(AddStatement(T, statements[i]), statements, i + 1)

\* produce_commitment: the blinding scalars, in witness order.
Blindings(T, witnesses, entropy) ==
    LET seed == GenRngFromWitness(T, witnesses, entropy)
    IN [i \in 1 .. Len(witnesses) |-> ScalarFrom(RngDraw(seed, i))]

RECURSIVE AddBlindCommitments(_, _, _, _)
AddBlindCommitments(T, witnesses, rs, i) ==
    IF i > Len(witnesses) THEN T
    ELSE AddBlindCommitments(
             AddCommitment(T, witnesses[i].label, GenCommitment(witnesses[i].kind, rs[i])),
             witnesses, rs, i + 1)

\* produce_commitment
ProduceCommitment(T, witnesses, entropy) ==
    Bind(Blindings(T, witnesses, entropy),
         LAMBDA rs : [rs |-> rs, transcript |-> AddBlindCommitments(T, witnesses, rs, 1)])

\* CompactProof::prove
Prove(T, label, witnesses, entropy) ==
    Bind([i \in 1 .. Len(witnesses) |-> ToStatement(witnesses[i])], LAMBDA statements :
    Bind(AddStatements(StartProof(T, label), statements, 1), LAMBDA T2 :
    Bind(ProduceCommitment(T2, witnesses, entropy), LAMBDA pc :
    Bind(GetChallenge(pc.transcript, "chal"), LAMBDA gc :
        [proof |-> [challenge |-> gc.challenge,
                    responses |-> [i \in 1 .. Len(witnesses) |->
                                     <<SAdd(pc.rs[i], SMul(gc.challenge.val, witnesses[i].x)),
                                       statements[i]>>]],
         transcript |-> gc.transcript]))))

RECURSIVE AddProofStatements(_, _, _)
AddProofStatements(T, responses, i) ==
    IF i > Len(responses) THEN T
    ELSE AddProofStatements(AddStatement(T, responses[i][2]), responses, i + 1)

RECURSIVE AddRecoveredCommitments(_, _, _, _)
AddRecoveredCommitments(T, responses, minus_c, i) ==
    IF i > Len(responses) THEN T
    ELSE AddRecoveredCommitments(
             AddCommitment(T, responses[i][2].label,
                           RecoverCommitment(responses[i][2].statement, minus_c, responses[i][1])),
             responses, minus_c, i + 1)

\* The orders n responses can be put in.
Orders(n) == {f \in [1 .. n -> 1 .. n] : \A i, j \in 1 .. n : f[i] = f[j] => i = j}

\* The responses put in the order f.
Reordered(responses, f) == [i \in 1 .. Len(responses) |-> responses[f[i]]]

\* verify accepting the responses in whichever order makes the challenge come out.
VerifyUnordered(proof, T, label) ==
    LET try(f) ==
            LET rs == Reordered(proof.responses, f)
                gc == GetChallenge(
                          AddRecoveredCommitments(
                              AddProofStatements(StartProof(T, label), rs, 1),
                              rs, SNeg(proof.challenge.val), 1), "chal")
            IN [ok |-> proof.challenge = gc.challenge, transcript |-> gc.transcript]
        fits == {f \in Orders(Len(proof.responses)) : try(f).ok}
    IN IF fits # {} THEN try(CHOOSE f \in fits : TRUE)
       ELSE try([i \in 1 .. Len(proof.responses) |-> i])

\* verify recomputing the challenge and never comparing it with the proof's.
VerifyWithoutComparison(proof, T, label) ==
    [ok |-> TRUE,
     transcript |-> GetChallenge(
                        AddRecoveredCommitments(
                            AddProofStatements(StartProof(T, label), proof.responses, 1),
                            proof.responses, SNeg(proof.challenge.val), 1), "chal").transcript]

\* verify working on a clone: the caller's transcript stays where it was.
VerifyOnClone(proof, T, label) ==
    [ok |-> proof.challenge
              = GetChallenge(
                    AddRecoveredCommitments(
                        AddProofStatements(StartProof(T, label), proof.responses, 1),
                        proof.responses, SNeg(proof.challenge.val), 1), "chal").challenge,
     transcript |-> T]

\* CompactProof::verify
Verify(proof, T, label) ==
    Bind(AddProofStatements(StartProof(T, label), proof.responses, 1), LAMBDA T2 :
    Bind(AddRecoveredCommitments(T2, proof.responses, SNeg(proof.challenge.val), 1), LAMBDA T3 :
    Bind(GetChallenge(T3, "chal"), LAMBDA gc :
        [ok |-> proof.challenge = gc.challenge, transcript |-> gc.transcript])))

\* CompactProof::get_response: the first response under the label, if any.
GetResponse(proof, label) ==
    LET hits == SelectSeq(proof.responses, LAMBDA e : e[2].label = label)
    IN IF hits = <<>> THEN [found |-> FALSE]
       ELSE [found |-> TRUE, response |-> hits[1][1], statement |-> hits[1][2].statement]

(***************************************************************************)
(* commited_nizk.rs                                                        *)
(***************************************************************************)
\* CommitedNizkTranscript::add_commitment
CommitedAddCommitment(T, label, commitment) ==
    AppendMessage(AppendMessage(T, "ss-ecdsa-poc/commited-nizk/commitment/1.0", label),
                  "commitment", commitment)

\* add_commited_nizk_nonce absorbing the separator and the label without the nonce.
AddCommitedNizkNonceDropsNonce(T, label, nonce) ==
    AppendMessage(T, "ss-ecdsa-poc/commited-nizk/commited-transcript/1.0", label)

\* CommitedNizkTranscript::add_commited_nizk_nonce
AddCommitedNizkNonce(T, label, nonce) ==
    AppendMessage(AppendMessage(T, "ss-ecdsa-poc/commited-nizk/commited-transcript/1.0", label),
                  "nonce", nonce)

\* CommitedNizkTranscript::get_commitment
GetCommitment(T) == ChallengeBytes(T, "commitment")

\* commit_nizk taking the commitment before the nonce is absorbed.
CommitNizkBeforeNonce(T, label, witness, proofEntropy, nonceEntropy) ==
    Bind(Prove(T, label, witness, proofEntropy), LAMBDA pr :
    Bind(GetCommitment(pr.transcript).bytes, LAMBDA commitment :
        [commitment |-> commitment,
         opening    |-> [nonce |-> RngDraw(GenRngFromWitness(pr.transcript, witness,
                                                            nonceEntropy), 1),
                         proof |-> pr.proof],
         transcript |-> CommitedAddCommitment(T, label, commitment)]))

\* commit_nizk proving on the caller's live transcript instead of a clone.
CommitNizkOnLive(T, label, witness, proofEntropy, nonceEntropy) ==
    Bind(Prove(T, label, witness, proofEntropy), LAMBDA pr :
    Bind(RngDraw(GenRngFromWitness(pr.transcript, witness, nonceEntropy), 1), LAMBDA nonce :
    Bind(GetCommitment(AddCommitedNizkNonce(pr.transcript, label, nonce)).bytes,
         LAMBDA commitment :
        [commitment |-> commitment,
         opening    |-> [nonce |-> nonce, proof |-> pr.proof],
         transcript |-> CommitedAddCommitment(pr.transcript, label, commitment)])))

\* commit_nizk
CommitNizk(T, label, witness, proofEntropy, nonceEntropy) ==
    Bind(Prove(T, label, witness, proofEntropy), LAMBDA pr :
    Bind(RngDraw(GenRngFromWitness(pr.transcript, witness, nonceEntropy), 1), LAMBDA nonce :
    Bind(GetCommitment(AddCommitedNizkNonce(pr.transcript, label, nonce)).bytes,
         LAMBDA commitment :
        [commitment |-> commitment,
         opening    |-> [nonce |-> nonce, proof |-> pr.proof],
         transcript |-> CommitedAddCommitment(T, label, commitment)])))

\* receive keeping the commitment without absorbing it into the live transcript.
ReceiveWithoutAbsorb(commitment, T, label) ==
    [opener     |-> [transcript |-> T, commitment |-> commitment, label |-> label],
     transcript |-> T]

\* Commitment::receive
Receive(commitment, T, label) ==
    [opener     |-> [transcript |-> T, commitment |-> commitment, label |-> label],
     transcript |-> CommitedAddCommitment(T, label, commitment)]

\* Opener::open without the comparison of the recomputed commitment with the received one.
OpenWithoutHashCheck(opener, opening) ==
    IF Verify(opening.proof, opener.transcript, opener.label).ok THEN "Ok" ELSE "Err"

\* Opener::open
Open(opener, opening) ==
    Bind(Verify(opening.proof, opener.transcript, opener.label), LAMBDA v :
        IF ~v.ok THEN "Err"
        ELSE IF GetCommitment(AddCommitedNizkNonce(v.transcript, opener.label,
                                                   opening.nonce)).bytes
                = opener.commitment
             THEN "Ok"
             ELSE "Err")

(***************************************************************************)
(* messages.rs: the wire forms of the two proofs.                          *)
(***************************************************************************)
\* extract_schnorr!
ExtractSchnorr(proof, label) ==
    LET r == GetResponse(proof, label)
    IN IF r.found /\ r.statement.tag = "Schnorr"
       THEN [ok |-> TRUE, gx |-> r.statement.gx, response |-> r.response]
       ELSE [ok |-> FALSE]

\* From<CompactProof> for KeyGenMsg2; "Panic" when a label is missing or of the wrong kind.
KeyGenMsg2From(proof) ==
    LET yr == GetResponse(proof, "Y")
        xb == ExtractSchnorr(proof, "X_beta_alice")
        rd == ExtractSchnorr(proof, "R_beta_redeem_alice")
        rf == ExtractSchnorr(proof, "R_beta_refund_alice")
    IN IF ~yr.found \/ yr.statement.tag # "DDH" \/ ~xb.ok \/ ~rd.ok \/ ~rf.ok
       THEN [res |-> "Panic"]
       ELSE [res |-> "Ok",
             msg |-> [type      |-> "KeyGenMsg2",
                      challenge |-> proof.challenge,
                      points    |-> [Y |-> yr.statement.gx, X_beta |-> xb.gx,
                                     R_beta_redeem |-> rd.gx, R_beta_refund |-> rf.gx,
                                     R3 |-> yr.statement.hx],
                      responses |-> [X_beta |-> xb.response, R_beta_redeem |-> rd.response,
                                     R_beta_refund |-> rf.response, Y_R3 |-> yr.response]]]

SchnorrEntry(response, label, gx) ==
    <<response, [label |-> label, statement |-> [tag |-> "Schnorr", g |-> G, gx |-> gx]]>>

\* From<KeyGenMsg2> for CompactProof with the generator as the second base of the DDH
\* statement.
CompactProofFromKeyGenMsg2OverG(msg) ==
    [challenge |-> msg.challenge,
     responses |-> <<
        SchnorrEntry(msg.responses.X_beta, "X_beta_alice", msg.points.X_beta),
        SchnorrEntry(msg.responses.R_beta_redeem, "R_beta_redeem_alice", msg.points.R_beta_redeem),
        SchnorrEntry(msg.responses.R_beta_refund, "R_beta_refund_alice", msg.points.R_beta_refund),
        <<msg.responses.Y_R3,
          [label |-> "Y",
           statement |-> [tag |-> "DDH", g |-> G, gx |-> msg.points.Y,
                          h |-> G, hx |-> msg.points.R3]]>> >>]

\* From<KeyGenMsg2> for CompactProof
CompactProofFromKeyGenMsg2(msg) ==
    [challenge |-> msg.challenge,
     responses |-> <<
        SchnorrEntry(msg.responses.X_beta, "X_beta_alice", msg.points.X_beta),
        SchnorrEntry(msg.responses.R_beta_redeem, "R_beta_redeem_alice", msg.points.R_beta_redeem),
        SchnorrEntry(msg.responses.R_beta_refund, "R_beta_refund_alice", msg.points.R_beta_refund),
        <<msg.responses.Y_R3,
          [label |-> "Y",
           statement |-> [tag |-> "DDH", g |-> G, gx |-> msg.points.Y,
                          h |-> msg.points.R_beta_redeem, hx |-> msg.points.R3]]>> >>]

\* From<Opening<CompactProof>> for CommitmentOpening
CommitmentOpeningFrom(opening) ==
    LET xb == ExtractSchnorr(opening.proof, "X_beta_bob")
        xa == ExtractSchnorr(opening.proof, "X_alpha_bob")
        rd == ExtractSchnorr(opening.proof, "R_beta_redeem_bob")
        rf == ExtractSchnorr(opening.proof, "R_beta_refund_bob")
    IN IF ~xb.ok \/ ~xa.ok \/ ~rd.ok \/ ~rf.ok
       THEN [res |-> "Panic"]
       ELSE [res |-> "Ok",
             opening |-> [challenge |-> opening.proof.challenge,
                          nonce     |-> opening.nonce,
                          points    |-> [X_beta |-> xb.gx, X_alpha |-> xa.gx,
                                         R_beta_redeem |-> rd.gx, R_beta_refund |-> rf.gx],
                          responses |-> [X_beta |-> xb.response, X_alpha |-> xa.response,
                                         R_beta_redeem |-> rd.response,
                                         R_beta_refund |-> rf.response]]]

\* apply_labels_to_opening in the order of the fields of BobPoints written by
\* CommitmentOpening::from: X_beta before X_alpha.
ApplyLabelsToOpeningBetaFirst(opening) ==
    [nonce |-> opening.nonce,
     proof |-> [challenge |-> opening.challenge,
                responses |-> <<
                   SchnorrEntry(opening.responses.X_beta, "X_beta_bob", opening.points.X_beta),
                   SchnorrEntry(opening.responses.X_alpha, "X_alpha_bob", opening.points.X_alpha),
                   SchnorrEntry(opening.responses.R_beta_redeem, "R_beta_redeem_bob",
                                opening.points.R_beta_redeem),
                   SchnorrEntry(opening.responses.R_beta_refund, "R_beta_refund_bob",
                                opening.points.R_beta_refund) >>]]

\* Alice1::apply_labels_to_opening
ApplyLabelsToOpening(opening) ==
    [nonce |-> opening.nonce,
     proof |-> [challenge |-> opening.challenge,
                responses |-> <<
                   SchnorrEntry(opening.responses.X_alpha, "X_alpha_bob", opening.points.X_alpha),
                   SchnorrEntry(opening.responses.X_beta, "X_beta_bob", opening.points.X_beta),
                   SchnorrEntry(opening.responses.R_beta_redeem, "R_beta_redeem_bob",
                                opening.points.R_beta_redeem),
                   SchnorrEntry(opening.responses.R_beta_refund, "R_beta_refund_bob",
                                opening.points.R_beta_refund) >>]]

(***************************************************************************)
(* The Paillier and PDL routines of the two-party ECDSA library, as their  *)
(* callers in alice.rs and bob.rs use them.  A ciphertext is its key and   *)
(* its plaintext; the modulus is larger than every plaintext that occurs.  *)
(***************************************************************************)
BobPaillierKey == "bob"

Encrypt(ek, m) == [ek |-> ek, pt |-> m]

\* Paillier::decrypt: the plaintext under the right key, garbage otherwise.
Decrypt(dk, c) == IF c.ek = dk THEN c.pt ELSE c.pt + 1

PaillierMul(c, k) == [ek |-> c.ek, pt |-> c.pt * k]

PaillierAdd(c1, c2) == [ek |-> c1.ek, pt |-> c1.pt + c2.pt]

\* party_one::PaillierKeyPair::generate_keypair_and_encrypted_share
GenerateKeypairAndEncryptedShare(keypair) ==
    [ek |-> BobPaillierKey, dk |-> BobPaillierKey,
     encrypted_share |-> Encrypt(BobPaillierKey, keypair.secret_key)]

\* party_one::PaillierKeyPair::generate_range_proof: sound for shares below q/3.
GenerateRangeProof(pq_and_c, x) ==
    [ek |-> pq_and_c.ek, c |-> pq_and_c.encrypted_share, valid |-> 3 * x < Q]

\* party_two::PaillierPublic::verify_range_proof, which Alice1::receive_message has
\* commented out: the proof must be valid and about the ciphertext it comes with.
VerifyRangeProof(N_and_c, proof) ==
    /\ proof.valid
    /\ proof.ek = N_and_c.ek
    /\ proof.c = N_and_c.encrypted_secret_share

\* party_one::PaillierKeyPair::generate_ni_proof_correct_key
GenerateNiProofCorrectKey(pq_and_c) == [ek |-> pq_and_c.ek, valid |-> TRUE]

\* party_two::PaillierPublic::verify_ni_proof_correct_key
VerifyNiProofCorrectKey(proof, ek) == proof.valid /\ proof.ek = ek

\* party_two::PaillierPublic::pdl_challenge
PdlChallenge(N_and_c, Q1, entropy) ==
    LET a == RngDraw(entropy, 1)
        b == RngDraw(entropy, 2)
        blindness == RngDraw(entropy, 3)
        c_tag == PaillierAdd(PaillierMul(N_and_c.encrypted_secret_share, a),
                             Encrypt(N_and_c.ek, b))
        c_tag_tag == <<"pdl-commit", a, b, blindness>>
        q_tag == PointAdd(PointMul(Q1, a % Q), PointMul(G, b % Q))
    IN [first |-> [type |-> "PdlMsg1", c_tag |-> c_tag, c_tag_tag |-> c_tag_tag],
        challenge |-> [c_tag |-> c_tag, c_tag_tag |-> c_tag_tag, a |-> a, b |-> b,
                       blindness |-> blindness, q_tag |-> q_tag]]

\* party_one::PaillierKeyPair::pdl_first_stage
PdlFirstStage(dk, msg) ==
    LET alpha == Decrypt(dk, msg.c_tag)
        q_hat == PointMul(G, alpha % Q)
        blindness == 1
    IN [first |-> [type |-> "PdlMsg2", c_hat |-> <<"pdl-commit-point", q_hat, blindness>>],
        decommit |-> [q_hat |-> q_hat, blindness |-> blindness],
        alpha |-> alpha]

\* party_two::PaillierPublic::pdl_decommit_c_tag_tag
PdlDecommitCTagTag(pdl_challenge) ==
    [type |-> "PdlMsg3", a |-> pdl_challenge.a, b |-> pdl_challenge.b,
     blindness |-> pdl_challenge.blindness]

\* party_one::PaillierKeyPair::pdl_second_stage
PdlSecondStage(first_message, second_message, x1, decommit, alpha) ==
    IF /\ first_message.c_tag_tag
            = <<"pdl-commit", second_message.a, second_message.b, second_message.blindness>>
       /\ alpha = second_message.a * x1 + second_message.b
    THEN [res |-> "Ok",
          msg |-> [type |-> "PdlMsg4", q_hat |-> decommit.q_hat,
                   blindness |-> decommit.blindness]]
    ELSE [res |-> "Err"]

\* party_two::PaillierPublic::verify_pdl
VerifyPdl(pdl_challenge, first_message, second_message) ==
    /\ first_message.c_hat = <<"pdl-commit-point", second_message.q_hat, second_message.blindness>>
    /\ second_message.q_hat = pdl_challenge.q_tag

\* party_two::PartialSig::compute
PartialSigCompute(ek, encrypted_secret_share, x2, k2, R_aux, message, rho) ==
    LET r == PointMul(R_aux, k2)
        rx == XCoor(r) % Q
        k2_inv == SInv(k2)
        partial_sig == rho * Q + SMul(k2_inv, message % Q)
        c1 == Encrypt(ek, partial_sig)
        v == SMul(k2_inv, SMul(rx, x2))
        c2 == PaillierMul(encrypted_secret_share, v)
    IN PaillierAdd(c2, c1)

(***************************************************************************)
(* bob.rs and alice.rs: each handler as a function of the state it         *)
(* consumes and the message it receives.  A result is Ok with the next     *)
(* state and the outbound message, Err, or Panic.                          *)
(***************************************************************************)
Failed(res) == [res |-> res]

\* BobKeys::new_random
BobKeysNewRandom(rng) ==
    [x_alpha       |-> KeyPairNewRandom(RngState(rng, 1)),
     x_beta        |-> KeyPairNewRandom(RngState(rng, 2)),
     r_beta_redeem |-> KeyPairNewRandom(RngState(rng, 3)),
     r_beta_refund |-> KeyPairNewRandom(RngState(rng, 4))]

\* AliceKeys::new_random
AliceKeysNewRandom(rng) ==
    [y             |-> KeyPairNewRandom(RngState(rng, 1)),
     x_beta        |-> KeyPairNewRandom(RngState(rng, 2)),
     r_beta_redeem |-> KeyPairNewRandom(RngState(rng, 3)),
     r_beta_refund |-> KeyPairNewRandom(RngState(rng, 4))]

Witness(x, kind, label) == [x |-> x, kind |-> kind, label |-> label]

\* The witness list of Bob1::new
BobKeygenWitness(keys) ==
    << Witness(keys.x_alpha.secret_key, SchnorrKind(G), "X_alpha_bob"),
       Witness(keys.x_beta.secret_key, SchnorrKind(G), "X_beta_bob"),
       Witness(keys.r_beta_redeem.secret_key, SchnorrKind(G), "R_beta_redeem_bob"),
       Witness(keys.r_beta_refund.secret_key, SchnorrKind(G), "R_beta_refund_bob") >>

\* The witness list of Alice1::new with the generator as the second base of the DDH
\* statement.
AliceKeygenWitnessOverG(keys) ==
    << Witness(keys.x_beta.secret_key, SchnorrKind(G), "X_beta_alice"),
       Witness(keys.r_beta_redeem.secret_key, SchnorrKind(G), "R_beta_redeem_alice"),
       Witness(keys.r_beta_refund.secret_key, SchnorrKind(G), "R_beta_refund_alice"),
       Witness(keys.y.secret_key, DDHKind(G, G), "Y") >>

\* The witness list of Alice1::new
AliceKeygenWitness(keys) ==
    << Witness(keys.x_beta.secret_key, SchnorrKind(G), "X_beta_alice"),
       Witness(keys.r_beta_redeem.secret_key, SchnorrKind(G), "R_beta_redeem_alice"),
       Witness(keys.r_beta_refund.secret_key, SchnorrKind(G), "R_beta_refund_alice"),
       Witness(keys.y.secret_key, DDHKind(G, keys.r_beta_redeem.public_key), "Y") >>

\* Bob1::new
Bob1New(T, keyEntropy, blindEntropy) ==
    Bind(BobKeysNewRandom(TranscriptRng(T, keyEntropy)), LAMBDA keys :
    Bind(CommitNizk(T, "ssecdsa_keygen_bob", BobKeygenWitness(keys),
                    blindEntropy, blindEntropy), LAMBDA cn :
        [res |-> "Ok",
         state |-> [state |-> "Bob1", commitment_opening |-> cn.opening, keys |-> keys],
         msg |-> [type |-> "KeyGenMsg1", commitment |-> cn.commitment],
         transcript |-> cn.transcript]))

\* Alice1::new
Alice1New(T, keygen_msg_1, keyEntropy, blindEntropy) ==
    Bind(Receive(keygen_msg_1.commitment, T, "ssecdsa_keygen_bob"), LAMBDA rcv :
    Bind(AliceKeysNewRandom(TranscriptRng(rcv.transcript, keyEntropy)), LAMBDA keys :
    Bind(Prove(rcv.transcript, "ssecdsa_keygen_alice", AliceKeygenWitness(keys),
               blindEntropy), LAMBDA pr :
    Bind(KeyGenMsg2From(pr.proof), LAMBDA out :
        IF out.res # "Ok" THEN [res |-> "Panic", transcript |-> pr.transcript]
        ELSE [res |-> "Ok",
              state |-> [state |-> "Alice1", bob_commitment |-> rcv.opener, keys |-> keys],
              msg |-> out.msg,
              transcript |-> pr.transcript]))))

\* Bob1::receive_message without the check of what alice_proof.verify returned.
Bob1ReceiveUnverified(self, T, alice_keygen) ==
    LET alice_points == alice_keygen.points
        pq_and_c == GenerateKeypairAndEncryptedShare(self.keys.x_beta)
    IN
    Bind(Verify(CompactProofFromKeyGenMsg2(alice_keygen), T, "ssecdsa_keygen_alice"),
         LAMBDA v :
    Bind(CommitmentOpeningFrom(self.commitment_opening), LAMBDA opening :
       [res |-> "Ok",
        state |-> [state |-> "Bob2", keys |-> self.keys, alice_points |-> alice_points,
                   pq_and_c |-> pq_and_c,
                   X_beta |-> PointMul(alice_points.X_beta, self.keys.x_beta.secret_key)],
        msg |-> [type |-> "KeyGenMsg3",
                 N_and_c |-> [ek |-> pq_and_c.ek,
                              encrypted_secret_share |-> pq_and_c.encrypted_share],
                 commitment_opening |-> opening.opening,
                 paillier_range_proof |->
                     GenerateRangeProof(pq_and_c, self.keys.x_beta.secret_key),
                 paillier_correct_key_proof |-> GenerateNiProofCorrectKey(pq_and_c)],
        transcript |-> v.transcript]))

\* Bob1::receive_message
Bob1Receive(self, T, alice_keygen) ==
    LET alice_points == alice_keygen.points
        pq_and_c == GenerateKeypairAndEncryptedShare(self.keys.x_beta)
    IN
    Bind(Verify(CompactProofFromKeyGenMsg2(alice_keygen), T, "ssecdsa_keygen_alice"),
         LAMBDA v :
    Bind(CommitmentOpeningFrom(self.commitment_opening), LAMBDA opening :
       IF ~v.ok THEN [res |-> "Err", transcript |-> v.transcript]
       ELSE IF opening.res # "Ok" THEN [res |-> "Panic", transcript |-> v.transcript]
       ELSE [res |-> "Ok",
             state |-> [state |-> "Bob2", keys |-> self.keys, alice_points |-> alice_points,
                        pq_and_c |-> pq_and_c,
                        X_beta |-> PointMul(alice_points.X_beta, self.keys.x_beta.secret_key)],
             msg |-> [type |-> "KeyGenMsg3",
                      N_and_c |-> [ek |-> pq_and_c.ek,
                                   encrypted_secret_share |-> pq_and_c.encrypted_share],
                      commitment_opening |-> opening.opening,
                      paillier_range_proof |->
                          GenerateRangeProof(pq_and_c, self.keys.x_beta.secret_key),
                      paillier_correct_key_proof |-> GenerateNiProofCorrectKey(pq_and_c)],
             transcript |-> v.transcript]))

\* Alice1::receive_message taking Bob's X_alpha where the code takes his X_beta.
Alice1ReceiveTakesXAlpha(self, msg, entropy) ==
    LET bob_points == msg.commitment_opening.points
        opening == ApplyLabelsToOpening(msg.commitment_opening)
    IN
    Bind(PdlChallenge(msg.N_and_c, bob_points.X_beta, entropy), LAMBDA pdl :
       IF Open(self.bob_commitment, opening) # "Ok" THEN Failed("Err")
       ELSE IF ~VerifyNiProofCorrectKey(msg.paillier_correct_key_proof, msg.N_and_c.ek)
       THEN Failed("Err")
       ELSE [res |-> "Ok",
             state |-> [state |-> "Alice2", keys |-> self.keys, bob_points |-> bob_points,
                        X_beta |-> PointMul(bob_points.X_alpha, self.keys.x_beta.secret_key),
                        N_and_c |-> msg.N_and_c, pdl_challenge |-> pdl.challenge],
             msg |-> pdl.first])

\* Alice1::receive_message
Alice1Receive(self, msg, entropy) ==
    LET bob_points == msg.commitment_opening.points
        opening == ApplyLabelsToOpening(msg.commitment_opening)
    IN
    Bind(PdlChallenge(msg.N_and_c, bob_points.X_beta, entropy), LAMBDA pdl :
       IF Open(self.bob_commitment, opening) # "Ok" THEN Failed("Err")
       ELSE IF ~VerifyNiProofCorrectKey(msg.paillier_correct_key_proof, msg.N_and_c.ek)
       THEN Failed("Err")
       ELSE [res |-> "Ok",
             state |-> [state |-> "Alice2", keys |-> self.keys, bob_points |-> bob_points,
                        X_beta |-> PointMul(bob_points.X_beta, self.keys.x_beta.secret_key),
                        N_and_c |-> msg.N_and_c, pdl_challenge |-> pdl.challenge],
             msg |-> pdl.first])

\* Bob2::receive_message
Bob2Receive(self, msg) ==
    Bind(PdlFirstStage(self.pq_and_c.dk, msg), LAMBDA st :
       [res |-> "Ok",
        state |-> [state |-> "Bob3", keys |-> self.keys, alice_points |-> self.alice_points,
                   pq_and_c |-> self.pq_and_c, X_beta |-> self.X_beta,
                   pdl_first_message |-> msg, pdl_decommit |-> st.decommit,
                   alpha |-> st.alpha],
        msg |-> st.first])

\* A faulty Alice2::receive_message: answers with the message it was given.
Alice2ReceiveEchoes(self, msg) ==
    [res |-> "Ok",
     state |-> [state |-> "Alice3", X_beta |-> self.X_beta, N_and_c |-> self.N_and_c,
                pdl_first_message |-> msg, pdl_challenge |-> self.pdl_challenge,
                keys |-> self.keys, bob_points |-> self.bob_points],
     msg |-> msg]

\* Alice2::receive_message
Alice2Receive(self, msg) ==
    [res |-> "Ok",
     state |-> [state |-> "Alice3", X_beta |-> self.X_beta, N_and_c |-> self.N_and_c,
                pdl_first_message |-> msg, pdl_challenge |-> self.pdl_challenge,
                keys |-> self.keys, bob_points |-> self.bob_points],
     msg |-> PdlDecommitCTagTag(self.pdl_challenge)]

\* Bob3::receive_message
Bob3Receive(self, msg) ==
    LET st == PdlSecondStage(self.pdl_first_message, msg, self.keys.x_beta.secret_key,
                             self.pdl_decommit, self.alpha)
    IN IF st.res # "Ok" THEN Failed("Err")
       ELSE [res |-> "Ok",
             state |-> [state |-> "Bob4", keys |-> self.keys,
                        alice_points |-> self.alice_points, X_beta |-> self.X_beta,
                        pq_and_c |-> self.pq_and_c],
             msg |-> st.msg]

\* Alice3::receive_message without the call of verify_pdl.
Alice3ReceiveUnverified(self, msg, entropy) ==
    LET R_contrived == PointMul(self.bob_points.R_beta_redeem, self.keys.y.secret_key)
        c_redeem == PartialSigCompute(self.N_and_c.ek, self.N_and_c.encrypted_secret_share,
                                      self.keys.x_beta.secret_key,
                                      self.keys.r_beta_redeem.secret_key,
                                      R_contrived, beta_redeem_tx, RngDraw(entropy, 1))
        R_beta_redeem == PointMul(R_contrived, self.keys.r_beta_redeem.secret_key)
        c_refund == PartialSigCompute(self.N_and_c.ek, self.N_and_c.encrypted_secret_share,
                                      self.keys.x_beta.secret_key,
                                      self.keys.r_beta_refund.secret_key,
                                      self.bob_points.R_beta_refund, beta_refund_tx,
                                      RngDraw(entropy, 2))
    IN [res |-> "Ok",
        state |-> [state |-> "Alice4", keys |-> self.keys, X_beta |-> self.X_beta,
                   R_beta_redeem |-> R_beta_redeem],
        msg |-> [type |-> "SignMsg1",
                 c_beta_redeem_missing_y_and_bob_R |-> c_redeem,
                 c_beta_refund_missing_bob_R |-> c_refund]]

\* Alice3::receive_message keeping R_contrived in Alice4 where the code keeps
\* R_contrived * r_beta_redeem_alice.
Alice3ReceiveKeepsContrived(self, msg, entropy) ==
    LET R_contrived == PointMul(self.bob_points.R_beta_redeem, self.keys.y.secret_key)
        c_redeem == PartialSigCompute(self.N_and_c.ek, self.N_and_c.encrypted_secret_share,
                                      self.keys.x_beta.secret_key,
                                      self.keys.r_beta_redeem.secret_key,
                                      R_contrived, beta_redeem_tx, RngDraw(entropy, 1))
        R_beta_redeem == PointMul(R_contrived, self.keys.r_beta_redeem.secret_key)
        c_refund == PartialSigCompute(self.N_and_c.ek, self.N_and_c.encrypted_secret_share,
                                      self.keys.x_beta.secret_key,
                                      self.keys.r_beta_refund.secret_key,
                                      self.bob_points.R_beta_refund, beta_refund_tx,
                                      RngDraw(entropy, 2))
    IN IF ~VerifyPdl(self.pdl_challenge, self.pdl_first_message, msg) THEN Failed("Err")
       ELSE [res |-> "Ok",
             state |-> [state |-> "Alice4", keys |-> self.keys, X_beta |-> self.X_beta,
                        R_beta_redeem |-> R_contrived],
             msg |-> [type |-> "SignMsg1",
                      c_beta_redeem_missing_y_and_bob_R |-> c_redeem,
                      c_beta_refund_missing_bob_R |-> c_refund]]

\* Alice3::receive_message
Alice3Receive(self, msg, entropy) ==
    LET R_contrived == PointMul(self.bob_points.R_beta_redeem, self.keys.y.secret_key)
        c_redeem == PartialSigCompute(self.N_and_c.ek, self.N_and_c.encrypted_secret_share,
                                      self.keys.x_beta.secret_key,
                                      self.keys.r_beta_redeem.secret_key,
                                      R_contrived, beta_redeem_tx, RngDraw(entropy, 1))
        R_beta_redeem == PointMul(R_contrived, self.keys.r_beta_redeem.secret_key)
        c_refund == PartialSigCompute(self.N_and_c.ek, self.N_and_c.encrypted_secret_share,
                                      self.keys.x_beta.secret_key,
                                      self.keys.r_beta_refund.secret_key,
                                      self.bob_points.R_beta_refund, beta_refund_tx,
                                      RngDraw(entropy, 2))
    IN IF ~VerifyPdl(self.pdl_challenge, self.pdl_first_message, msg) THEN Failed("Err")
       ELSE [res |-> "Ok",
             state |-> [state |-> "Alice4", keys |-> self.keys, X_beta |-> self.X_beta,
                        R_beta_redeem |-> R_beta_redeem],
             msg |-> [type |-> "SignMsg1",
                      c_beta_redeem_missing_y_and_bob_R |-> c_redeem,
                      c_beta_refund_missing_bob_R |-> c_refund]]

\* Bob4::extract_partial_sig
ExtractPartialSig(paillier_key, c, X, R, R_partial, msg) ==
    LET s_tag == ScalarFrom(Decrypt(paillier_key, c))
        rx == ScalarFrom(XCoor(R))
        m == ScalarFrom(msg)
    IN IF PointMul(R_partial, s_tag) = PointAdd(PointMul(X, rx), PointMul(G, m))
       THEN [res |-> "Ok", s_tag |-> s_tag]
       ELSE [res |-> "Err"]

\* A faulty Bob4::receive_message: keeps the decrypted s' in Bob5 where the code keeps
\* s'' = s' / r_beta_redeem_bob.
Bob4ReceiveKeepsTag(self, msg) ==
    LET R_beta_redeem == PointMul(self.alice_points.R3, self.keys.r_beta_redeem.secret_key)
        redeem == ExtractPartialSig(self.pq_and_c.dk, msg.c_beta_redeem_missing_y_and_bob_R,
                                    self.X_beta, R_beta_redeem,
                                    self.alice_points.R_beta_redeem, beta_redeem_tx)
        R_beta_refund ==
            PointMul(self.alice_points.R_beta_refund, self.keys.r_beta_refund.secret_key)
        refund == ExtractPartialSig(self.pq_and_c.dk, msg.c_beta_refund_missing_bob_R,
                                    self.X_beta, R_beta_refund,
                                    self.alice_points.R_beta_refund, beta_refund_tx)
        s_beta_refund == SMul(refund.s_tag, SInv(self.keys.r_beta_refund.secret_key))
        sig == NormalizeAndVerify(beta_refund_tx, self.X_beta, s_beta_refund, R_beta_refund)
    IN IF redeem.res # "Ok" THEN Failed("Err")
       ELSE IF refund.res # "Ok" THEN Failed("Err")
       ELSE IF sig.res # "Ok" THEN Failed(sig.res)
       ELSE [res |-> "Ok",
             state |-> [state |-> "Bob5", X_beta |-> self.X_beta,
                        s_beta_redeem_missing_y |-> redeem.s_tag,
                        Y |-> self.alice_points.Y,
                        sig_beta_refund |-> [Rx |-> sig.Rx, s |-> sig.s]],
             msg |-> [type |-> "SignMsg2",
                      s_beta_redeem_missing_y |->
                          SMul(redeem.s_tag, SInv(self.keys.r_beta_redeem.secret_key))]]

\* Bob4::receive_message handing extract_partial_sig the points scaled by Bob's nonces
\* as R_partial.
Bob4ReceiveScaledPartial(self, msg) ==
    LET R_beta_redeem == PointMul(self.alice_points.R3, self.keys.r_beta_redeem.secret_key)
        redeem == ExtractPartialSig(self.pq_and_c.dk, msg.c_beta_redeem_missing_y_and_bob_R,
                                    self.X_beta, R_beta_redeem,
                                    R_beta_redeem, beta_redeem_tx)
        s_beta_redeem_missing_y ==
            SMul(redeem.s_tag, SInv(self.keys.r_beta_redeem.secret_key))
        R_beta_refund ==
            PointMul(self.alice_points.R_beta_refund, self.keys.r_beta_refund.secret_key)
        refund == ExtractPartialSig(self.pq_and_c.dk, msg.c_beta_refund_missing_bob_R,
                                    self.X_beta, R_beta_refund,
                                    R_beta_refund, beta_refund_tx)
        s_beta_refund == SMul(refund.s_tag, SInv(self.keys.r_beta_refund.secret_key))
        sig == NormalizeAndVerify(beta_refund_tx, self.X_beta, s_beta_refund, R_beta_refund)
    IN IF redeem.res # "Ok" THEN Failed("Err")
       ELSE IF refund.res # "Ok" THEN Failed("Err")
       ELSE IF sig.res # "Ok" THEN Failed(sig.res)
       ELSE [res |-> "Ok",
             state |-> [state |-> "Bob5", X_beta |-> self.X_beta,
                        s_beta_redeem_missing_y |-> s_beta_redeem_missing_y,
                        Y |-> self.alice_points.Y,
                        sig_beta_refund |-> [Rx |-> sig.Rx, s |-> sig.s]],
             msg |-> [type |-> "SignMsg2",
                      s_beta_redeem_missing_y |-> s_beta_redeem_missing_y]]

\* Bob4::receive_message
Bob4Receive(self, msg) ==
    LET R_beta_redeem == PointMul(self.alice_points.R3, self.keys.r_beta_redeem.secret_key)
        redeem == ExtractPartialSig(self.pq_and_c.dk, msg.c_beta_redeem_missing_y_and_bob_R,
                                    self.X_beta, R_beta_redeem,
                                    self.alice_points.R_beta_redeem, beta_redeem_tx)
        s_beta_redeem_missing_y ==
            SMul(redeem.s_tag, SInv(self.keys.r_beta_redeem.secret_key))
        R_beta_refund ==
            PointMul(self.alice_points.R_beta_refund, self.keys.r_beta_refund.secret_key)
        refund == ExtractPartialSig(self.pq_and_c.dk, msg.c_beta_refund_missing_bob_R,
                                    self.X_beta, R_beta_refund,
                                    self.alice_points.R_beta_refund, beta_refund_tx)
        s_beta_refund == SMul(refund.s_tag, SInv(self.keys.r_beta_refund.secret_key))
        sig == NormalizeAndVerify(beta_refund_tx, self.X_beta, s_beta_refund, R_beta_refund)
    IN IF redeem.res # "Ok" THEN Failed("Err")
       ELSE IF refund.res # "Ok" THEN Failed("Err")
       ELSE IF sig.res # "Ok" THEN Failed(sig.res)
       ELSE [res |-> "Ok",
             state |-> [state |-> "Bob5", X_beta |-> self.X_beta,
                        s_beta_redeem_missing_y |-> s_beta_redeem_missing_y,
                        Y |-> self.alice_points.Y,
                        sig_beta_refund |-> [Rx |-> sig.Rx, s |-> sig.s]],
             msg |-> [type |-> "SignMsg2",
                      s_beta_redeem_missing_y |-> s_beta_redeem_missing_y]]

\* A faulty Alice4::receive_message: publishes s'' / y as it is, unnormalised and
\* unverified.
Alice4ReceiveUnchecked(self, msg) ==
    [res |-> "Ok",
     state |-> [state |-> "Done"],
     msg |-> [type |-> "BlockchainMsg",
              sig_beta_redeem |->
                  [Rx |-> XCoor(self.R_beta_redeem),
                   s |-> SMul(msg.s_beta_redeem_missing_y, SInv(self.keys.y.secret_key))]]]

\* Alice4::receive_message
Alice4Receive(self, msg) ==
    LET s_beta_redeem == SMul(msg.s_beta_redeem_missing_y, SInv(self.keys.y.secret_key))
        sig == NormalizeAndVerify(beta_redeem_tx, self.X_beta, s_beta_redeem,
                                  self.R_beta_redeem)
    IN IF sig.res # "Ok" THEN Failed(sig.res)
       ELSE [res |-> "Ok",
             state |-> [state |-> "Done"],
             msg |-> [type |-> "BlockchainMsg",
                      sig_beta_redeem |-> [Rx |-> sig.Rx, s |-> sig.s]]]

\* A faulty extract_y: never negates the candidate.
ExtractYNoFlip(self, s) ==
    LET y_maybe == SMul(SInv(s), self.s_beta_redeem_missing_y)
    IN IF XCoor(PointMul(G, y_maybe)) = XCoor(self.Y)
       THEN [res |-> "Ok", y |-> y_maybe]
       ELSE [res |-> "Err"]

\* A faulty extract_y: decides the sign by the y-coordinate but never rejects.
ExtractYIgnoresX(self, s) ==
    LET y_maybe == SMul(SInv(s), self.s_beta_redeem_missing_y)
    IN IF PointMul(G, y_maybe) = self.Y
       THEN [res |-> "Ok", y |-> y_maybe]
       ELSE [res |-> "Ok", y |-> ScalarFrom((Q - y_maybe) % Q)]

\* Bob5::extract_y
ExtractY(self, s) ==
    LET y_maybe == SMul(SInv(s), self.s_beta_redeem_missing_y)
        Y_maybe == PointMul(G, y_maybe)
    IN IF XCoor(Y_maybe) = XCoor(self.Y)
       THEN IF YCoor(Y_maybe) # YCoor(self.Y)
            THEN [res |-> "Ok", y |-> ScalarFrom((Q - y_maybe) % Q)]
            ELSE [res |-> "Ok", y |-> y_maybe]
       ELSE [res |-> "Err"]

\* A faulty receive_message: extracts y without verifying the published signature.
Bob5ReceiveUnverified(self, msg) ==
    Bind(ExtractY(self, msg.sig_beta_redeem.s), LAMBDA ey :
        IF ey.res # "Ok" THEN Failed("Err")
        ELSE [res |-> "Ok", state |-> [state |-> "Bob7", y |-> ey.y],
              msg |-> [type |-> "none"]])

\* Bob5::receive_message
Bob5Receive(self, msg) ==
    LET v == EcdsaVerify(beta_redeem_tx, msg.sig_beta_redeem.Rx, msg.sig_beta_redeem.s,
                         self.X_beta)
        ey == ExtractY(self, msg.sig_beta_redeem.s)
    IN IF v = "panic" THEN Failed("Panic")
       ELSE IF v = "false" THEN Failed("Err")
       ELSE IF ey.res # "Ok" THEN Failed("Err")
       ELSE [res |-> "Ok", state |-> [state |-> "Bob7", y |-> ey.y], msg |-> [type |-> "none"]]

(***************************************************************************)
(* bin/ss_ecdsa_poc.rs: one session.  main hands each outbound message to  *)
(* the other party's handler and stops at the first Err or panic.  The     *)
(* channel may replace one message in flight by a different one.           *)
(***************************************************************************)
\* The system entropy the key generators are seeded with ranges over 0 .. MaxEntropy.
MaxEntropy == 11

\* The system entropy of the blinding and library randomness ranges over 0 .. MaxBlinding.
MaxBlinding == 0

EntropyPool == 0 .. MaxEntropy

BlindingPool == 0 .. MaxBlinding

VARIABLES
    bob,               \* Bob's current typestate (Bob1 .. Bob5, Bob7), or how he ended
    alice,             \* Alice's current typestate (Alice1 .. Alice4), or how she ended
    bob_transcript,    \* main's bob_transcript
    alice_transcript,  \* main's alice_transcript
    wire,              \* the message in flight
    sent,              \* the types of the messages produced so far, in order
    calls,             \* the handler calls made so far: by whom, from which state, on which
                       \* message, with what result and outbound message
    drawn,             \* the key sets the two parties drew (Bob's, then Alice's)
    tampered,          \* whether the channel has replaced a message
    \* The unit tests of nizk_sigma_proof.rs and commited_nizk.rs:
    witness,             \* the witness list of the test
    proof_label,         \* the label the prover proves or commits under
    transcript_prover,   \* the prover's live transcript
    transcript_verifier, \* the verifier's (receiver's) live transcript
    proof,               \* the proof CompactProof::prove returned
    commited,            \* what commit_nizk returned: the commitment and the opening
    opener,              \* what Commitment::receive returned
    verdicts,            \* what the checks of the test returned
    step                 \* how far the test has come

session_vars == <<bob, alice, bob_transcript, alice_transcript, wire, sent, calls, drawn,
                  tampered>>

test_vars == <<witness, proof_label, transcript_prover, transcript_verifier, proof,
               commited, opener, verdicts, step>>

vars == <<bob, alice, bob_transcript, alice_transcript, wire, sent, calls, drawn, tampered,
          witness, proof_label, transcript_prover, transcript_verifier, proof,
          commited, opener, verdicts, step>>

NoMsg == [type |-> "none"]

\* main before its first call.
SessionStart ==
    /\ bob = [state |-> "Start"]
    /\ alice = [state |-> "Start"]
    /\ bob_transcript = NewTranscript("ss_ecdsa")
    /\ alice_transcript = NewTranscript("ss_ecdsa")
    /\ wire = NoMsg
    /\ sent = <<>>
    /\ calls = <<>>
    /\ drawn = <<>>
    /\ tampered = FALSE

\* No test is running.
NoTest ==
    /\ witness = <<>>
    /\ proof_label = ""
    /\ transcript_prover = <<>>
    /\ transcript_verifier = <<>>
    /\ proof = <<>>
    /\ commited = <<>>
    /\ opener = <<>>
    /\ verdicts = {}
    /\ step = "none"

Init == SessionStart /\ NoTest

\* What a handler's result leaves behind: the next state, or how the session ended.
After(r) == IF r.res = "Ok" THEN r.state ELSE [state |-> r.res]

Outbound(r) == IF r.res = "Ok" THEN r.msg ELSE NoMsg

Sent(r) == IF r.res = "Ok" /\ r.msg.type # "none" THEN Append(sent, r.msg.type) ELSE sent

Called(party, self, who, r) ==
    Append(calls, [party |-> party, by |-> who, self |-> self, on |-> wire,
                   res |-> r.res, out |-> Outbound(r)])

BobStep(who, r) ==
    /\ bob' = After(r)
    /\ wire' = Outbound(r)
    /\ sent' = Sent(r)
    /\ calls' = Called("Bob", bob, who, r)
    /\ UNCHANGED <<alice, tampered>>
    /\ UNCHANGED test_vars

AliceStep(who, r) ==
    /\ alice' = After(r)
    /\ wire' = Outbound(r)
    /\ sent' = Sent(r)
    /\ calls' = Called("Alice", alice, who, r)
    /\ UNCHANGED <<bob, tampered>>
    /\ UNCHANGED test_vars

DoBob1New ==
    /\ bob.state = "Start"
    /\ wire.type = "none"
    /\ \E ke \in EntropyPool, be \in BlindingPool :
          \E r \in {Bob1New(bob_transcript, ke, be)} :
             /\ BobStep("Bob1::new", r)
             /\ bob_transcript' = r.transcript
             /\ drawn' = Append(drawn, r.state.keys)
    /\ UNCHANGED alice_transcript

DoAlice1New ==
    /\ alice.state = "Start"
    /\ wire.type = "KeyGenMsg1"
    /\ \E ke \in EntropyPool, be \in BlindingPool :
          \E r \in {Alice1New(alice_transcript, wire, ke, be)} :
             /\ AliceStep("Alice1::new", r)
             /\ alice_transcript' = r.transcript
             /\ drawn' = IF r.res = "Ok" THEN Append(drawn, r.state.keys) ELSE drawn
    /\ UNCHANGED bob_transcript

DoBob1Receive ==
    /\ bob.state = "Bob1"
    /\ wire.type = "KeyGenMsg2"
    /\ \E r \in {Bob1Receive(bob, bob_transcript, wire)} :
          /\ BobStep("Bob1", r)
          /\ bob_transcript' = r.transcript
    /\ UNCHANGED <<alice_transcript, drawn>>

DoAlice1Receive ==
    /\ alice.state = "Alice1"
    /\ wire.type = "KeyGenMsg3"
    /\ \E e \in BlindingPool : \E r \in {Alice1Receive(alice, wire, e)} : AliceStep("Alice1", r)
    /\ UNCHANGED <<bob_transcript, alice_transcript, drawn>>

DoBob2Receive ==
    /\ bob.state = "Bob2"
    /\ wire.type = "PdlMsg1"
    /\ \E r \in {Bob2Receive(bob, wire)} : BobStep("Bob2", r)
    /\ UNCHANGED <<bob_transcript, alice_transcript, drawn>>

DoAlice2Receive ==
    /\ alice.state = "Alice2"
    /\ wire.type = "PdlMsg2"
    /\ \E r \in {Alice2Receive(alice, wire)} : AliceStep("Alice2", r)
    /\ UNCHANGED <<bob_transcript, alice_transcript, drawn>>

DoBob3Receive ==
    /\ bob.state = "Bob3"
    /\ wire.type = "PdlMsg3"
    /\ \E r \in {Bob3Receive(bob, wire)} : BobStep("Bob3", r)
    /\ UNCHANGED <<bob_transcript, alice_transcript, drawn>>

DoAlice3Receive ==
    /\ alice.state = "Alice3"
    /\ wire.type = "PdlMsg4"
    /\ \E e \in BlindingPool : \E r \in {Alice3Receive(alice, wire, e)} : AliceStep("Alice3", r)
    /\ UNCHANGED <<bob_transcript, alice_transcript, drawn>>

DoBob4Receive ==
    /\ bob.state = "Bob4"
    /\ wire.type = "SignMsg1"
    /\ \E r \in {Bob4Receive(bob, wire)} : BobStep("Bob4", r)
    /\ UNCHANGED <<bob_transcript, alice_transcript, drawn>>

DoAlice4Receive ==
    /\ alice.state = "Alice4"
    /\ wire.type = "SignMsg2"
    /\ \E r \in {Alice4Receive(alice, wire)} : AliceStep("Alice4", r)
    /\ UNCHANGED <<bob_transcript, alice_transcript, drawn>>

DoBob5Receive ==
    /\ bob.state = "Bob5"
    /\ wire.type = "BlockchainMsg"
    /\ \E r \in {Bob5Receive(bob, wire)} : BobStep("Bob5", r)
    /\ UNCHANGED <<bob_transcript, alice_transcript, drawn>>

\* The point with twice the discrete logarithm: a different point of the curve.
OtherPoint(pt) == PointAdd(pt, pt)

\* The messages the channel may deliver in place of w.
Replacements(w) ==
    CASE w.type = "KeyGenMsg1" ->
           {[w EXCEPT !.commitment = NewTranscript("forged")]}
      [] w.type = "KeyGenMsg2" ->
           {[w EXCEPT !.challenge.val = SAdd(@, 1)]}
           \cup {[w EXCEPT !.points[n] = OtherPoint(@)] : n \in DOMAIN w.points}
           \cup {[w EXCEPT !.responses[n] = SAdd(@, 1)] : n \in DOMAIN w.responses}
      [] w.type = "KeyGenMsg3" ->
           {[w EXCEPT !.commitment_opening.nonce = @ + 1],
            [w EXCEPT !.commitment_opening.challenge.val = SAdd(@, 1)]}
           \cup {[w EXCEPT !.commitment_opening.points[n] = OtherPoint(@)] :
                    n \in DOMAIN w.commitment_opening.points}
           \cup {[w EXCEPT !.commitment_opening.responses[n] = SAdd(@, 1)] :
                    n \in DOMAIN w.commitment_opening.responses}
           \cup {
            [w EXCEPT !.paillier_correct_key_proof.valid = FALSE],
            [w EXCEPT !.paillier_range_proof.valid = FALSE],
            [w EXCEPT !.N_and_c.encrypted_secret_share.pt = @ + 1]}
      [] w.type = "PdlMsg1" -> {[w EXCEPT !.c_tag.pt = @ + 1]}
      [] w.type = "PdlMsg2" -> {[w EXCEPT !.c_hat = <<"pdl-commit-point", Infinity, 0>>]}
      [] w.type = "PdlMsg3" -> {[w EXCEPT !.a = @ + 1]}
      [] w.type = "PdlMsg4" -> {[w EXCEPT !.q_hat = OtherPoint(@)]}
      [] w.type = "SignMsg1" ->
           {[w EXCEPT !.c_beta_redeem_missing_y_and_bob_R.pt = @ + 1],
            [w EXCEPT !.c_beta_redeem_missing_y_and_bob_R.pt = @ + Q],
            [w EXCEPT !.c_beta_refund_missing_bob_R.pt = @ + 1]}
      [] w.type = "SignMsg2" ->
           {[w EXCEPT !.s_beta_redeem_missing_y = s] :
               s \in NonZeroScalars \ {w.s_beta_redeem_missing_y}}
      [] w.type = "BlockchainMsg" ->
           {[w EXCEPT !.sig_beta_redeem.s = s] :
               s \in NonZeroScalars \ {w.sig_beta_redeem.s}}
           \cup {[w EXCEPT !.sig_beta_redeem.Rx = x] :
               x \in (1 .. (FieldP - 1)) \ {w.sig_beta_redeem.Rx}}
      [] OTHER -> {}

Tamper ==
    /\ ~tampered
    /\ wire.type # "none"
    /\ \E w \in Replacements(wire) : wire' = w
    /\ tampered' = TRUE
    /\ UNCHANGED <<bob, alice, bob_transcript, alice_transcript, sent, calls, drawn>>
    /\ UNCHANGED test_vars

Next ==
    \/ DoBob1New
    \/ DoAlice1New
    \/ DoBob1Receive
    \/ DoAlice1Receive
    \/ DoBob2Receive
    \/ DoAlice2Receive
    \/ DoBob3Receive
    \/ DoAlice3Receive
    \/ DoBob4Receive
    \/ DoAlice4Receive
    \/ DoBob5Receive
    \/ Tamper

Spec == Init /\ [][Next]_vars

(***************************************************************************)
(* The unit tests of nizk_sigma_proof.rs and commited_nizk.rs as a second  *)
(* state machine: a witness list and a proof label are drawn, the prover   *)
(* proves or commits, and the verifier checks the proof as it is, or on a  *)
(* clone of its transcript after the proof or the label was changed.       *)
(* Secrets are non-zero, as FE::new_random gives them.                     *)
(***************************************************************************)
MaxWitnesses == 2

MaxSecret == 2

\* GE::base_point2
BasePoint2 == PointMul(G, 2)

\* The witnesses of the tests: a secret with a Schnorr statement under the label x1 or
\* with a DDH statement under the label x2.
TestWitnesses ==
    {Witness(x, SchnorrKind(G), "x1") : x \in 1 .. MaxSecret}
    \cup {Witness(x, DDHKind(G, BasePoint2), "x2") : x \in 1 .. MaxSecret}

\* A witness list with one witness left out or with one statement kind exchanged.
Defects(list) ==
    {[j \in 1 .. Len(list) - 1 |-> IF j < i THEN list[j] ELSE list[j + 1]] :
        i \in 1 .. Len(list)}
    \cup {[list EXCEPT ![i].kind = IF @.tag = "Schnorr" THEN DDHKind(G, BasePoint2)
                                    ELSE SchnorrKind(G)] : i \in 1 .. Len(list)}

\* The witness lists of Bob1::new and Alice1::new for the drawn keys.
KeygenLists ==
    {BobKeygenWitness(BobKeysNewRandom(e)) : e \in BlindingPool}
    \cup {AliceKeygenWitness(AliceKeysNewRandom(e)) : e \in BlindingPool}

WitnessLists ==
    UNION {[1 .. n -> TestWitnesses] : n \in 1 .. MaxWitnesses}
    \cup KeygenLists
    \cup UNION {Defects(list) : list \in KeygenLists}

ProofLabels == {"single_schnorr_proof", "single_derp_proof"}

\* The state the two transcripts of a test start in: new, or after some message.
TestStarts ==
    {NewTranscript("single_schnorr"),
     AppendMessage(NewTranscript("commit_test"), "earlier", "message")}

TestInit ==
    /\ SessionStart
    /\ witness \in WitnessLists
    /\ proof_label \in ProofLabels
    /\ transcript_prover \in TestStarts
    /\ transcript_verifier = transcript_prover
    /\ proof = <<>>
    /\ commited = <<>>
    /\ opener = <<>>
    /\ verdicts = {}
    /\ step = "new"

\* let proof = CompactProof::prove(&mut transcript_prover, label, &witness)
DoProve ==
    /\ step = "new"
    /\ \E e \in BlindingPool :
          \E r \in {Prove(transcript_prover, proof_label, witness, e)} :
             /\ proof' = r.proof
             /\ transcript_prover' = r.transcript
    /\ step' = "proved"
    /\ UNCHANGED <<witness, proof_label, transcript_verifier, commited, opener, verdicts>>
    /\ UNCHANGED session_vars

\* proof.verify(&mut transcript_verifier, label)
DoVerify ==
    /\ step = "proved"
    /\ \E r \in {Verify(proof, transcript_verifier, proof_label)} :
          /\ transcript_verifier' = r.transcript
          /\ verdicts' = {[op |-> "verify", altered |-> "nothing", ok |-> r.ok]}
    /\ step' = "verified"
    /\ UNCHANGED <<witness, proof_label, transcript_prover, proof, commited, opener>>
    /\ UNCHANGED session_vars

\* A check on a clone of the verifier's transcript.
OnClone(verdict) ==
    /\ verdicts' = {verdict}
    /\ step' = "checked"
    /\ UNCHANGED <<witness, proof_label, transcript_prover, transcript_verifier, proof,
                   commited, opener>>
    /\ UNCHANGED session_vars

\* proof.responses.reverse(), and every other change of the order, then verify
DoVerifyReordered ==
    /\ step = "proved"
    /\ \E f \in Orders(Len(proof.responses)) :
          /\ Reordered(proof.responses, f) # proof.responses
          /\ OnClone([op |-> "verify", altered |-> "order",
                      ok |-> Verify([proof EXCEPT !.responses = Reordered(@, f)],
                                    transcript_verifier, proof_label).ok])

\* proof.challenge = proof.challenge + FE::new_random(), then verify
DoVerifyWrongChallenge ==
    /\ step = "proved"
    /\ \E c \in {[proof.challenge EXCEPT !.val = v] : v \in Scalars \ {proof.challenge.val}}
              \cup {[proof.challenge EXCEPT !.pre = NewTranscript("FE::new_random")]} :
          OnClone([op |-> "verify", altered |-> "challenge",
                   ok |-> Verify([proof EXCEPT !.challenge = c],
                                 transcript_verifier, proof_label).ok])

\* proof.verify(&mut transcript_verifier, b"single_derp_proof")
DoVerifyWrongLabel ==
    /\ step = "proved"
    /\ \E label \in ProofLabels \ {proof_label} :
          OnClone([op |-> "verify", altered |-> "label",
                   ok |-> Verify(proof, transcript_verifier, label).ok])

\* KeyGenMsg2::from(proof) and CommitmentOpening::from(opening)
DoExtract ==
    /\ step = "proved"
    /\ \/ OnClone([op |-> "extract", into |-> "KeyGenMsg2", res |-> KeyGenMsg2From(proof).res])
       \/ OnClone([op |-> "extract", into |-> "CommitmentOpening",
                   res |-> CommitmentOpeningFrom([nonce |-> 0, proof |-> proof]).res])

\* let (commitment, opening) = commit_nizk(&mut transcript_prover, label, &witness)
DoCommitNizk ==
    /\ step = "new"
    /\ \E e \in BlindingPool :
          \E r \in {CommitNizk(transcript_prover, proof_label, witness, e, e)} :
             /\ commited' = [commitment |-> r.commitment, opening |-> r.opening]
             /\ transcript_prover' = r.transcript
    /\ step' = "commited"
    /\ UNCHANGED <<witness, proof_label, transcript_verifier, proof, opener, verdicts>>
    /\ UNCHANGED session_vars

\* let opener = commitment.receive(&mut transcript_verifier, label)
DoReceive ==
    /\ step = "commited"
    /\ \E r \in {Receive(commited.commitment, transcript_verifier, proof_label)} :
          /\ opener' = r.opener
          /\ transcript_verifier' = r.transcript
    /\ step' = "received"
    /\ UNCHANGED <<witness, proof_label, transcript_prover, proof, commited, verdicts>>
    /\ UNCHANGED session_vars

\* What the opener is asked to open: the commitment and the opening as commit_nizk
\* returned them, or with one part changed: the nonce, a response, the challenge, a point
\* of a statement, or the commitment.
Openings ==
    LET o == commited.opening
        c == commited.commitment
        n == Len(o.proof.responses)
        case(altered, commitment, opening) ==
            [altered |-> altered, commitment |-> commitment, opening |-> opening]
    IN {case("nothing", c, o),
        case("nonce", c, [o EXCEPT !.nonce = @ + 1]),
        case("challenge", c, [o EXCEPT !.proof.challenge.val = SAdd(@, 1)]),
        case("commitment", NewTranscript("forged"), o)}
       \cup {case("response", c, [o EXCEPT !.proof.responses[i][1] = SAdd(@, 1)]) :
                i \in 1 .. n}
       \cup {case("point", c,
                  [o EXCEPT !.proof.responses[i][2].statement.gx = OtherPoint(@)]) :
                i \in 1 .. n}
       \cup {case("point", c,
                  [o EXCEPT !.proof.responses[i][2].statement.hx = OtherPoint(@)]) :
                i \in {k \in 1 .. n : o.proof.responses[k][2].statement.tag = "DDH"}}

\* opener.open(opening) for each of them; a verdict keeps what proof.verify returned
\* inside open.
DoOpen ==
    /\ step = "received"
    /\ verdicts' = {[op |-> "open",
                     altered |-> case.altered,
                     ok |-> Verify(case.opening.proof, opener.transcript, opener.label).ok,
                     res |-> Open([opener EXCEPT !.commitment = case.commitment],
                                  case.opening)] : case \in Openings}
    /\ step' = "opened"
    /\ UNCHANGED <<witness, proof_label, transcript_prover, transcript_verifier, proof,
                   commited, opener>>
    /\ UNCHANGED session_vars

\* commitment.receive(&mut transcript, label) with another label, or on a transcript in
\* another state than the prover's was in at commit_nizk, then opener.open(opening).
DoOpenElsewhere ==
    /\ step = "commited"
    /\ \E label \in ProofLabels,
          T \in TestStarts \cup {transcript_prover,
                                 AppendMessage(transcript_verifier, "later", "message")} :
          /\ <<label, T>> # <<proof_label, transcript_verifier>>
          /\ \E r \in {Receive(commited.commitment, T, label)} :
                OnClone([op |-> "open",
                         altered |-> (IF T # transcript_verifier THEN "transcript"
                                      ELSE "label"),
                         opener |-> r.opener,
                         ok |-> Verify(commited.opening.proof, r.opener.transcript,
                                       r.opener.label).ok,
                         res |-> Open(r.opener, commited.opening)])

TestNext ==
    \/ DoProve
    \/ DoVerify
    \/ DoVerifyReordered
    \/ DoVerifyWrongChallenge
    \/ DoVerifyWrongLabel
    \/ DoExtract
    \/ DoCommitNizk
    \/ DoOpenElsewhere
    \/ DoReceive
    \/ DoOpen

TestSpec == TestInit /\ [][TestNext]_vars

(***************************************************************************)
(* ecdsa::normalize_and_verify on its own: a call for every message of the *)
(* two transactions, key X = x * G, scalar s in [1, q) and point R = k * G.*)
(***************************************************************************)
DoNormalizeAndVerify ==
    /\ step = "none"
    /\ \E msg \in {beta_redeem_tx, beta_refund_tx}, x \in NonZeroScalars,
          s \in NonZeroScalars, k \in NonZeroScalars :
          verdicts' = {[op |-> "normalize_and_verify", msg |-> msg, X |-> PointMul(G, x),
                        s |-> s, R |-> PointMul(G, k),
                        out |-> NormalizeAndVerify(msg, PointMul(G, x), s, PointMul(G, k))]}
    /\ step' = "checked"
    /\ UNCHANGED <<witness, proof_label, transcript_prover, transcript_verifier, proof,
                   commited, opener>>
    /\ UNCHANGED session_vars

\* ecdsa::verify on its own: a call for every Rx and s in [1, q).
DoEcdsaVerify ==
    /\ step = "none"
    /\ \E msg \in {beta_redeem_tx, beta_refund_tx}, x \in NonZeroScalars,
          s \in NonZeroScalars, Rx \in NonZeroScalars :
          verdicts' = {[op |-> "ecdsa::verify", msg |-> msg, X |-> PointMul(G, x),
                        s |-> s, Rx |-> Rx,
                        out |-> EcdsaVerify(msg, Rx, s, PointMul(G, x))]}
    /\ step' = "checked"
    /\ UNCHANGED <<witness, proof_label, transcript_prover, transcript_verifier, proof,
                   commited, opener>>
    /\ UNCHANGED session_vars

EcdsaNext ==
    \/ DoNormalizeAndVerify
    \/ DoEcdsaVerify

EcdsaSpec == Init /\ [][EcdsaNext]_vars

(***************************************************************************)
(* Properties of a session.                                                *)
(***************************************************************************)
\* An honest run: the channel has delivered every message as it was produced.
Honest == ~tampered

\* The keys Bob1::new and Alice1::new drew.
BobDrawn == drawn[1]

AliceDrawn == drawn[2]

\* x_beta_alice * x_beta_bob, the discrete logarithm of the joint key.
JointSecret == SMul(AliceDrawn.x_beta.secret_key, BobDrawn.x_beta.secret_key)

JointKey == PointMul(G, JointSecret)

\* The nonce points of the two signatures, from the drawn secrets.
RedeemNonce ==
    PointMul(G, SMul(SMul(AliceDrawn.r_beta_redeem.secret_key,
                          BobDrawn.r_beta_redeem.secret_key),
                     AliceDrawn.y.secret_key))

RefundNonce ==
    PointMul(G, SMul(AliceDrawn.r_beta_refund.secret_key,
                     BobDrawn.r_beta_refund.secret_key))

\* Neither signature scalar is zero: m + rx * x /= 0 (mod q).  On secp256k1 the
\* contrary has probability 2^-256 per signature; on the small group it is 1/19.
Generic ==
    Len(drawn) = 2 =>
        /\ SAdd(ScalarFrom(beta_redeem_tx),
                SMul(ScalarFrom(XCoor(RedeemNonce)), JointSecret)) # 0
        /\ SAdd(ScalarFrom(beta_refund_tx),
                SMul(ScalarFrom(XCoor(RefundNonce)), JointSecret)) # 0

\* The order in which main produces the messages and calls the handlers.
MessageOrder ==
    << "KeyGenMsg1", "KeyGenMsg2", "KeyGenMsg3", "PdlMsg1", "PdlMsg2", "PdlMsg3",
       "PdlMsg4", "SignMsg1", "SignMsg2", "BlockchainMsg" >>

CallOrder ==
    << "Bob1::new", "Alice1::new", "Bob1", "Alice1", "Bob2", "Alice2", "Bob3", "Alice3",
       "Bob4", "Alice4", "Bob5" >>

\* The handlers whose receive_message returns a Result.
Fallible == {"Bob1", "Bob3", "Bob4", "Bob5", "Alice1", "Alice3", "Alice4"}

LastCall == calls[Len(calls)]

\* The published s and the s'' Bob keeps, while the BlockchainMsg is in flight.
PublishedS == wire.sig_beta_redeem.s

\* C1: in every honest run every handler call from Bob1::new to Bob5's receive_message
\* returns Ok, each call leaves the next message in flight, and after the eleventh call
\* Bob is in Bob7; no honest run aborts.
C1_HonestRunCompletes ==
    (Honest /\ Generic) =>
        /\ \A i \in 1 .. Len(calls) : calls[i].res = "Ok"
        /\ Len(calls) \in 1 .. 10 => wire.type = MessageOrder[Len(calls)]
        /\ Len(calls) = 11 => bob.state = "Bob7"

\* C2: in an honest run the signature (Rx, s) of the BlockchainMsg Alice4 emits passes
\* ecdsa::verify for the redeem digest under x_beta_alice * x_beta_bob * G.
C2_PublishedSignatureVerifies ==
    (Honest /\ wire.type = "BlockchainMsg") =>
        /\ EcdsaVerify(beta_redeem_tx, wire.sig_beta_redeem.Rx, PublishedS, JointKey) = "true"
        /\ wire.sig_beta_redeem.Rx = XCoor(RedeemNonce)

\* An honest run in which Alice4 has emitted s'' / y unchanged (it was already low).
C2_Witness ==
    /\ Honest
    /\ wire.type = "BlockchainMsg"
    /\ LastCall.by = "Alice4"
    /\ PublishedS = SMul(LastCall.on.s_beta_redeem_missing_y, SInv(AliceDrawn.y.secret_key))

\* C3: in an honest run the y of Bob7 is Alice's secret y and y * G is the point Y of
\* KeyGenMsg2, whether or not the published s was negated.
C3_BobLearnsY ==
    (Honest /\ bob.state = "Bob7") =>
        /\ bob.y = AliceDrawn.y.secret_key
        /\ PointMul(G, bob.y) = calls[3].on.points.Y

\* An honest run that ended in Bob7 after Alice4 negated s.
C3_Witness ==
    /\ Honest
    /\ bob.state = "Bob7"
    /\ LastCall.on.sig_beta_redeem.s
         # SMul(calls[10].on.s_beta_redeem_missing_y, SInv(AliceDrawn.y.secret_key))

\* C4: in an honest run inv(s_published) * s'' is y or q - y, where s_published is the
\* low s of the BlockchainMsg and s'' is what Bob sent in SignMsg2 and keeps in Bob5.
C4_CandidateIsYOrMinusY ==
    (Honest /\ wire.type = "BlockchainMsg") =>
        /\ bob.state = "Bob5"
        /\ bob.s_beta_redeem_missing_y = calls[9].out.s_beta_redeem_missing_y
        /\ PublishedS <= Q - PublishedS
        /\ SMul(SInv(PublishedS), bob.s_beta_redeem_missing_y)
             \in {AliceDrawn.y.secret_key, Q - AliceDrawn.y.secret_key}

\* An honest run in which the candidate is q - y.
C4_Witness ==
    /\ Honest
    /\ wire.type = "BlockchainMsg"
    /\ bob.state = "Bob5"
    /\ SMul(SInv(PublishedS), bob.s_beta_redeem_missing_y) = Q - AliceDrawn.y.secret_key

\* C5: for y_cand = inv(s) * s'', extract_y returns y_cand when y_cand * G is Y, q - y_cand
\* when only the x-coordinates agree, and an error when the x-coordinates differ.
C5_ExtractYCases ==
    (bob.state = "Bob5" /\ wire.type = "BlockchainMsg") =>
        LET y_cand == SMul(SInv(PublishedS), bob.s_beta_redeem_missing_y)
            Y_cand == PointMul(G, y_cand)
            r == ExtractY(bob, PublishedS)
        IN /\ Y_cand = bob.Y => r = [res |-> "Ok", y |-> y_cand]
           /\ (XCoor(Y_cand) = XCoor(bob.Y) /\ YCoor(Y_cand) # YCoor(bob.Y))
                 => r = [res |-> "Ok", y |-> Q - y_cand]
           /\ XCoor(Y_cand) # XCoor(bob.Y) => r = [res |-> "Err"]

\* Bob5 has returned q - y_cand.
C5_Witness ==
    /\ bob.state = "Bob7"
    /\ LastCall.by = "Bob5"
    /\ bob.y = Q - SMul(SInv(LastCall.on.sig_beta_redeem.s),
                        LastCall.self.s_beta_redeem_missing_y)

\* C6: whenever Bob4 returned Ok, the refund signature kept in Bob5 passes ecdsa::verify
\* for the refund digest under Bob's joint key, with
\* Rx = x-coord(r_beta_refund_bob * R_beta_refund_alice).
C6_RefundSignatureVerifies ==
    bob.state = "Bob5" =>
        /\ bob.X_beta = PointMul(calls[3].on.points.X_beta, BobDrawn.x_beta.secret_key)
        /\ bob.sig_beta_refund.Rx
             = XCoor(PointMul(calls[3].on.points.R_beta_refund,
                              BobDrawn.r_beta_refund.secret_key))
        /\ EcdsaVerify(beta_refund_tx, bob.sig_beta_refund.Rx, bob.sig_beta_refund.s,
                       bob.X_beta) = "true"

\* Bob4 has returned Ok and Alice has published nothing.
C6_Witness ==
    /\ bob.state = "Bob5"
    /\ LastCall.by = "Bob4"
    /\ alice.state = "Alice4"
    /\ "BlockchainMsg" \notin {sent[i] : i \in 1 .. Len(sent)}

\* C7: Bob4 emits SignMsg2 only if both decryptions satisfy the point equation and the
\* completed refund signature verifies; if one of the checks does not pass it returns
\* an error and emits no message.
C7_Bob4EmitsOnlyChecked ==
    \A i \in 1 .. Len(calls) :
        (Generic /\ calls[i].by = "Bob4") =>
            LET self == calls[i].self
                msg == calls[i].on
                R_redeem == PointMul(self.alice_points.R3, self.keys.r_beta_redeem.secret_key)
                R_refund == PointMul(self.alice_points.R_beta_refund,
                                     self.keys.r_beta_refund.secret_key)
                redeem == ExtractPartialSig(self.pq_and_c.dk,
                                            msg.c_beta_redeem_missing_y_and_bob_R, self.X_beta,
                                            R_redeem, self.alice_points.R_beta_redeem,
                                            beta_redeem_tx)
                refund == ExtractPartialSig(self.pq_and_c.dk, msg.c_beta_refund_missing_bob_R,
                                            self.X_beta, R_refund,
                                            self.alice_points.R_beta_refund, beta_refund_tx)
                checked ==
                    /\ redeem.res = "Ok"
                    /\ refund.res = "Ok"
                    /\ EcdsaVerify(beta_refund_tx, XCoor(R_refund),
                                   LowS(SMul(refund.s_tag,
                                             SInv(self.keys.r_beta_refund.secret_key))),
                                   self.X_beta) = "true"
            IN /\ calls[i].out.type = "SignMsg2" => checked
               /\ ~checked => calls[i].res = "Err" /\ calls[i].out = NoMsg

\* C8: Alice4 emits a BlockchainMsg only if the low-s form of s'' / y verifies for the
\* redeem digest under X_beta with nonce point R_beta_redeem; for a SignMsg2 whose scalar
\* yields no valid signature it returns an error and publishes nothing.
C8_Alice4PublishesOnlyValid ==
    \A i \in 1 .. Len(calls) :
        (Generic /\ calls[i].by = "Alice4") =>
            LET self == calls[i].self
                s == LowS(SMul(calls[i].on.s_beta_redeem_missing_y,
                               SInv(self.keys.y.secret_key)))
                Rx == XCoor(self.R_beta_redeem)
            IN /\ calls[i].out.type = "BlockchainMsg"
                    => EcdsaVerify(beta_redeem_tx, Rx, s, self.X_beta) = "true"
               /\ ~SecpVerify(beta_redeem_tx, Rx, s, self.X_beta)
                    => calls[i].res = "Err" /\ calls[i].out = NoMsg

C10_FailureEndsSession ==
    \A i \in 1 .. Len(calls) :
        (Generic /\ calls[i].by \in Fallible /\ calls[i].res # "Ok") =>
            /\ calls[i].res = "Err"
            /\ calls[i].out = NoMsg
            /\ i = Len(calls)
            /\ wire = NoMsg
            /\ (IF calls[i].party = "Bob" THEN bob ELSE alice) = [state |-> "Err"]

\* C11: Alice1 returns Ok and sends the PDL challenge only if Bob's commitment opens,
\* the correct-key proof verifies and the range proof verifies.
C11_Alice1ChecksBothPaillierProofs ==
    \A i \in 1 .. Len(calls) :
        (calls[i].by = "Alice1" /\ calls[i].res = "Ok") =>
            /\ calls[i].out.type = "PdlMsg1"
            /\ Open(calls[i].self.bob_commitment,
                    ApplyLabelsToOpening(calls[i].on.commitment_opening)) = "Ok"
            /\ VerifyNiProofCorrectKey(calls[i].on.paillier_correct_key_proof,
                                       calls[i].on.N_and_c.ek)
            /\ VerifyRangeProof(calls[i].on.N_and_c, calls[i].on.paillier_range_proof)


\* C12: Alice1 returns Ok only on the opening of the commitment Bob sent in KeyGenMsg1: the
\* commitment she holds is Bob's and every point, response, the challenge and the nonce of
\* the opening she received are the ones Bob committed to; any other opening is an error.
C12_Alice1OpensOnlyCommitted ==
    \A i \in 2 .. Len(calls) :
        calls[i].by = "Alice1" =>
            /\ calls[i].res = "Ok" =>
                  /\ calls[i].self.bob_commitment.commitment = calls[1].out.commitment
                  /\ calls[i].on.commitment_opening = calls[i - 1].out.commitment_opening
            /\ calls[i].on.commitment_opening # calls[i - 1].out.commitment_opening =>
                  calls[i].res = "Err"

\* Alice1 accepted the opening Bob sent for the commitment Bob sent.
C12_Witness ==
    \E i \in 2 .. Len(calls) :
        /\ calls[i].by = "Alice1"
        /\ calls[i].res = "Ok"
        /\ calls[i].on.commitment_opening = calls[i - 1].out.commitment_opening
        /\ calls[i].self.bob_commitment.commitment = calls[1].out.commitment

\* A KeyGenMsg3 whose opening differs from the committed one reached Alice1 and was refused.
C12_TamperedOpeningRefused ==
    \E i \in 2 .. Len(calls) :
        /\ calls[i].by = "Alice1"
        /\ calls[i].res = "Err"
        /\ calls[i].on.commitment_opening # calls[i - 1].out.commitment_opening

\* C23: Bob1 returns Ok, and so reveals the opening in KeyGenMsg3, only on the KeyGenMsg2
\* Alice made from her proof on the transcript that absorbed Bob's commitment; on any other
\* KeyGenMsg2 he returns an error and KeyGenMsg3 is never sent.
C23_OpeningOnlyAfterAliceProof ==
    /\ \A i \in 2 .. Len(calls) :
          calls[i].by = "Bob1" =>
              /\ calls[i].res = "Ok" =>
                    /\ calls[i].on = calls[i - 1].out
                    /\ calls[i - 1].on = calls[1].out
                    /\ calls[i].out.type = "KeyGenMsg3"
              /\ (calls[i].on # calls[i - 1].out \/ calls[i - 1].on # calls[1].out) =>
                    /\ calls[i].res = "Err"
                    /\ calls[i].out = NoMsg
    /\ \A k \in 1 .. Len(sent) :
          sent[k] = "KeyGenMsg3" =>
              \E i \in 1 .. Len(calls) : calls[i].by = "Bob1" /\ calls[i].res = "Ok"
    /\ (\E i \in 1 .. Len(calls) : calls[i].by = "Bob1" /\ calls[i].res # "Ok") =>
          \A k \in 1 .. Len(sent) : sent[k] # "KeyGenMsg3"

\* Bob1 verified Alice's KeyGenMsg2 and sent the opening.
C23_Witness ==
    \E i \in 2 .. Len(calls) :
        /\ calls[i].by = "Bob1"
        /\ calls[i].res = "Ok"
        /\ calls[i].on = calls[i - 1].out
        /\ sent[Len(sent)] = "KeyGenMsg3"

\* Bob's transcript when Bob1::receive_message is called: main's, after Bob1::new.
BobTranscriptAfterNew ==
    CommitedAddCommitment(NewTranscript("ss_ecdsa"), "ssecdsa_keygen_bob",
                          calls[1].out.commitment)

\* C24: when the signing phase starts each side has verified the other's proof: Alice3
\* emits SignMsg1 only if verify_pdl succeeded and, earlier in the run, Alice1 opened Bob's
\* commitment; Bob4 is called only in runs where Alice's proof verified on Bob's transcript.
C24_SigningAfterBothProofs ==
    \A i \in 1 .. Len(calls) :
        /\ (calls[i].by = "Alice3" /\ calls[i].res = "Ok") =>
              /\ calls[i].out.type = "SignMsg1"
              /\ VerifyPdl(calls[i].self.pdl_challenge, calls[i].self.pdl_first_message,
                           calls[i].on)
              /\ \E j \in 1 .. i - 1 :
                    /\ calls[j].by = "Alice1"
                    /\ calls[j].res = "Ok"
                    /\ Open(calls[j].self.bob_commitment,
                            ApplyLabelsToOpening(calls[j].on.commitment_opening)) = "Ok"
        /\ calls[i].by = "Bob4" =>
              \E j \in 1 .. i - 1 :
                  /\ calls[j].by = "Bob1"
                  /\ calls[j].res = "Ok"
                  /\ Verify(CompactProofFromKeyGenMsg2(calls[j].on), BobTranscriptAfterNew,
                            "ssecdsa_keygen_alice").ok

\* Alice3 has sent SignMsg1 and Bob4 has been called on it.
C24_Witness ==
    \E i \in 2 .. Len(calls) :
        /\ calls[i].by = "Bob4"
        /\ calls[i - 1].by = "Alice3"
        /\ calls[i - 1].res = "Ok"
        /\ calls[i - 1].out.type = "SignMsg1"

\* C25: in every honest run the joint key Alice computes in Alice1::receive_message and
\* the one Bob computes in Bob1::receive_message are both x_beta_alice * x_beta_bob * G.
C25_JointKeysAgree ==
    Honest =>
        /\ alice.state \in {"Alice2", "Alice3", "Alice4"} => alice.X_beta = JointKey
        /\ bob.state \in {"Bob2", "Bob3", "Bob4", "Bob5"} => bob.X_beta = JointKey

\* Both parties hold the joint key.
C25_Witness ==
    /\ Honest
    /\ alice.state = "Alice2"
    /\ bob.state = "Bob2"
    /\ alice.X_beta = bob.X_beta
    /\ alice.X_beta = JointKey

\* C26: in every honest run the redeem nonce point Alice keeps in Alice4 and the point
\* R3 * r_beta_redeem_bob Bob takes rx from in Bob4 are both
\* y * r_beta_redeem_alice * r_beta_redeem_bob * G.
C26_RedeemNoncesAgree ==
    Honest =>
        /\ alice.state = "Alice4" => alice.R_beta_redeem = RedeemNonce
        /\ bob.state = "Bob4" =>
              PointMul(bob.alice_points.R3, bob.keys.r_beta_redeem.secret_key) = RedeemNonce

\* Alice is in Alice4 and Bob in Bob4, about to check the redeem signature.
C26_Witness ==
    /\ Honest
    /\ alice.state = "Alice4"
    /\ bob.state = "Bob4"
    /\ alice.R_beta_redeem
         = PointMul(bob.alice_points.R3, bob.keys.r_beta_redeem.secret_key)

\* C27 as stated: the R3 of KeyGenMsg2 is y times Bob's redeem nonce point.
C27_R3OverBobNonce ==
    \A i \in 1 .. Len(calls) :
        (calls[i].by = "Alice1::new" /\ calls[i].res = "Ok") =>
            calls[i].out.points.R3
                = PointMul(BobDrawn.r_beta_redeem.public_key, AliceDrawn.y.secret_key)

\* C27, amended: the R3 of KeyGenMsg2 is y times Alice's own redeem nonce point, the second
\* base of the DDH statement labelled Y, whose first image is Y = y * G.
C27_R3OverAliceNonce ==
    \A i \in 1 .. Len(calls) :
        (calls[i].by = "Alice1::new" /\ calls[i].res = "Ok") =>
            /\ calls[i].out.points.R3
                 = PointMul(AliceDrawn.r_beta_redeem.public_key, AliceDrawn.y.secret_key)
            /\ calls[i].out.points.R_beta_redeem = AliceDrawn.r_beta_redeem.public_key
            /\ calls[i].out.points.Y = PointMul(G, AliceDrawn.y.secret_key)

\* Alice has sent a KeyGenMsg2 whose R3 is not y times Bob's redeem nonce point.
C27_Witness ==
    \E i \in 1 .. Len(calls) :
        /\ calls[i].by = "Alice1::new"
        /\ calls[i].res = "Ok"
        /\ calls[i].out.points.R3
             = PointMul(AliceDrawn.r_beta_redeem.public_key, AliceDrawn.y.secret_key)
        /\ calls[i].out.points.R3
             # PointMul(BobDrawn.r_beta_redeem.public_key, AliceDrawn.y.secret_key)

\* The two checks R_partial * s' = X_beta * rx + G * m of Bob4 in state self on msg, with
\* rx from the points scaled by Bob's nonces and the given points as R_partial.
PartialSigChecks(self, msg, redeem_partial, refund_partial) ==
    [redeem |-> ExtractPartialSig(
                    self.pq_and_c.dk, msg.c_beta_redeem_missing_y_and_bob_R, self.X_beta,
                    PointMul(self.alice_points.R3, self.keys.r_beta_redeem.secret_key),
                    redeem_partial, beta_redeem_tx),
     refund |-> ExtractPartialSig(
                    self.pq_and_c.dk, msg.c_beta_refund_missing_bob_R, self.X_beta,
                    PointMul(self.alice_points.R_beta_refund,
                             self.keys.r_beta_refund.secret_key),
                    refund_partial, beta_refund_tx)]

\* C28 as stated: the R_partial of Bob4's check is the point scaled by Bob's nonce, R3 *
\* r_beta_redeem_bob for redeem and R_beta_refund_alice * r_beta_refund_bob for refund.
C28_PartialIsScaledPoint ==
    \A i \in 1 .. Len(calls) :
        (calls[i].by = "Bob4" /\ calls[i].res = "Ok") =>
            LET self == calls[i].self
                chk == PartialSigChecks(
                           self, calls[i].on,
                           PointMul(self.alice_points.R3, self.keys.r_beta_redeem.secret_key),
                           PointMul(self.alice_points.R_beta_refund,
                                    self.keys.r_beta_refund.secret_key))
            IN chk.redeem.res = "Ok" /\ chk.refund.res = "Ok"

\* C28, amended: the R_partial of Bob4's check is Alice's own nonce point as she sent it,
\* R_beta_redeem_alice for redeem and R_beta_refund_alice for refund; only rx is taken from
\* the point scaled by Bob's nonce.  Bob4 returns Ok only if both checks hold, and an error
\* only if one of them fails or the refund signature does not verify.
C28_PartialIsAlicePoint ==
    \A i \in 1 .. Len(calls) :
        calls[i].by = "Bob4" =>
            LET self == calls[i].self
                chk == PartialSigChecks(self, calls[i].on, self.alice_points.R_beta_redeem,
                                        self.alice_points.R_beta_refund)
            IN /\ calls[i].res = "Ok" => chk.redeem.res = "Ok" /\ chk.refund.res = "Ok"
               /\ calls[i].res = "Err" =>
                     \/ chk.redeem.res = "Err"
                     \/ chk.refund.res = "Err"
                     \/ NormalizeAndVerify(
                            beta_refund_tx, self.X_beta,
                            SMul(chk.refund.s_tag, SInv(self.keys.r_beta_refund.secret_key)),
                            PointMul(self.alice_points.R_beta_refund,
                                     self.keys.r_beta_refund.secret_key)).res = "Err"

\* Bob4 returned Ok on checks that hold with Alice's points and fail with the scaled ones.
C28_Witness ==
    \E i \in 1 .. Len(calls) :
        /\ calls[i].by = "Bob4"
        /\ calls[i].res = "Ok"
        /\ PartialSigChecks(calls[i].self, calls[i].on,
                            calls[i].self.alice_points.R_beta_redeem,
                            calls[i].self.alice_points.R_beta_refund).redeem.res = "Ok"
        /\ PartialSigChecks(calls[i].self, calls[i].on,
                            PointMul(calls[i].self.alice_points.R3,
                                     calls[i].self.keys.r_beta_redeem.secret_key),
                            calls[i].self.alice_points.R_beta_refund).redeem.res = "Err"

\* C32: whatever BlockchainMsg Bob5 is given, if receive_message returns Ok(Bob7{y}) then
\* the signature of the message verifies for the redeem digest under X_beta and y * G is
\* the point Y that Bob received in KeyGenMsg2.
C32_BobAcceptsOnlyY ==
    bob.state = "Bob7" =>
        /\ LastCall.by = "Bob5"
        /\ LastCall.res = "Ok"
        /\ SecpVerify(beta_redeem_tx, LastCall.on.sig_beta_redeem.Rx,
                      LastCall.on.sig_beta_redeem.s, LastCall.self.X_beta)
        /\ LastCall.self.Y = calls[3].on.points.Y
        /\ PointMul(G, bob.y) = LastCall.self.Y

\* Bob5 returned Ok on a BlockchainMsg other than the one Alice4 published.
C32_Witness ==
    /\ bob.state = "Bob7"
    /\ LastCall.by = "Bob5"
    /\ LastCall.on # calls[10].out
    /\ PointMul(G, bob.y) = calls[3].on.points.Y

(***************************************************************************)
(* Properties of the proofs and the commitments, on the tests.             *)
(***************************************************************************)
\* C13: taking the responses out of a proof never panics: a proof without an expected
\* label, or with another statement kind under it, gives an error value.
C13_ExtractionNeverPanics ==
    \A v \in verdicts : v.op = "extract" => v.res # "Panic"

\* C14: the two ways Opener::open fails have different error values: a failed proof
\* verification is not reported like a commitment that does not match.
C14_OpenFailuresDistinguishable ==
    \A a, b \in verdicts :
        (a.op = "open" /\ b.op = "open" /\ a.res # "Ok" /\ b.res # "Ok" /\ a.ok # b.ok)
            => a.res # b.res

\* C15: completeness: with the two transcripts in the same state, the proof that prove
\* returns for any witness list verifies under the label it was proved under.
C15_ProveThenVerify ==
    \A v \in verdicts : (v.op = "verify" /\ v.altered = "nothing") => v.ok

\* A proof of a Schnorr and a DDH statement together was verified.
C15_Witness ==
    /\ step = "verified"
    /\ \E i, j \in 1 .. Len(witness) :
          witness[i].kind.tag = "Schnorr" /\ witness[j].kind.tag = "DDH"
    /\ \E v \in verdicts : v.op = "verify" /\ v.altered = "nothing" /\ v.ok

\* C16: a valid proof whose responses were put in another order does not verify.
C16_OrderMatters ==
    \A v \in verdicts : (v.op = "verify" /\ v.altered = "order") => ~v.ok

\* A proof with its responses in another order was refused.
C16_Witness ==
    /\ step = "checked"
    /\ Len(proof.responses) >= 2
    /\ \E v \in verdicts : v.op = "verify" /\ v.altered = "order" /\ ~v.ok

\* C17: a valid proof whose challenge was replaced by a different scalar does not verify.
C17_ChallengeMatters ==
    \A v \in verdicts : (v.op = "verify" /\ v.altered = "challenge") => ~v.ok

\* A proof with another challenge was refused.
C17_Witness ==
    /\ step = "checked"
    /\ \E v \in verdicts : v.op = "verify" /\ v.altered = "challenge" /\ ~v.ok

\* C18: a proof does not verify under a proof label other than the one it was proved
\* under, on a transcript otherwise in the same state.
C18_ProofLabelMatters ==
    \A v \in verdicts : (v.op = "verify" /\ v.altered = "label") => ~v.ok

\* A proof was refused under another proof label.
C18_Witness ==
    /\ step = "checked"
    /\ \E v \in verdicts : v.op = "verify" /\ v.altered = "label" /\ ~v.ok

\* C19: after prove on one transcript and a successful verify on the other, the two
\* transcripts are in the same state: their next challenges under one label are equal.
C19_TranscriptsAgreeAfterVerify ==
    (step = "verified" /\ \A v \in verdicts : v.ok) =>
        /\ transcript_verifier = transcript_prover
        /\ GetChallenge(transcript_verifier, "test").challenge
             = GetChallenge(transcript_prover, "test").challenge

\* A verify succeeded and moved the verifier's transcript.
C19_Witness ==
    /\ step = "verified"
    /\ \E v \in verdicts : v.ok
    /\ transcript_verifier \notin TestStarts
    /\ transcript_verifier = transcript_prover

\* C20: after commit_nizk on the prover's transcript and Commitment::receive with the same
\* label on the receiver's, and before any opening, the two live transcripts are in the
\* same state: their commitments are equal.
C20_TranscriptsAgreeAfterReceive ==
    step = "received" =>
        /\ transcript_verifier = transcript_prover
        /\ GetCommitment(transcript_verifier).bytes = GetCommitment(transcript_prover).bytes

\* The commitment was received and both live transcripts have absorbed it.
C20_Witness ==
    /\ step = "received"
    /\ transcript_verifier = CommitedAddCommitment(opener.transcript, proof_label,
                                                   commited.commitment)
    /\ transcript_prover = transcript_verifier

\* C21: the opener got by receive with the same label, on a transcript in the state the
\* prover's was in before commit_nizk, opens what commit_nizk returned.
C21_HonestOpeningOpens ==
    step = "opened" =>
        /\ Open(opener, commited.opening) = "Ok"
        /\ \A v \in verdicts : (v.op = "open" /\ v.altered = "nothing") => v.res = "Ok"

\* The opening commit_nizk returned was opened.
C21_Witness ==
    /\ step = "opened"
    /\ opener.commitment = commited.commitment
    /\ \E v \in verdicts : v.op = "open" /\ v.altered = "nothing" /\ v.res = "Ok"

\* C22: binding: with the challenge, a response, a point of a statement, the nonce or the
\* commitment changed, Opener::open returns an error.
C22_ChangedOpeningFails ==
    \A v \in verdicts : (v.op = "open" /\ v.altered # "nothing") => v.res = "Err"

\* Every kind of change was tried and refused.
C22_Witness ==
    /\ step = "opened"
    /\ \A kind \in {"nonce", "challenge", "commitment", "response", "point"} :
          \E v \in verdicts : v.op = "open" /\ v.altered = kind /\ v.res = "Err"

\* C30: commit_nizk changes the caller's transcript only by absorbing the commitment under
\* the label; receive keeps in the opener the transcript as it was before the commitment
\* and absorbs the commitment likewise; open leaves the opener as it was.
C30_LiveTranscriptFrame ==
    [][/\ (step = "new" /\ step' = "commited") =>
             /\ transcript_prover'
                  = CommitedAddCommitment(transcript_prover, proof_label, commited'.commitment)
             /\ transcript_verifier' = transcript_verifier
       /\ (step = "commited" /\ step' = "received") =>
             /\ opener'.transcript = transcript_verifier
             /\ transcript_verifier'
                  = CommitedAddCommitment(transcript_verifier, proof_label, commited.commitment)
             /\ transcript_prover' = transcript_prover
       /\ (step = "received" /\ step' = "opened") =>
             /\ opener' = opener
             /\ transcript_verifier' = transcript_verifier
             /\ transcript_prover' = transcript_prover]_vars

\* A commitment was made, received and opened, and the opener still holds the
\* transcript from before the commitment.
C30_Witness ==
    /\ step = "opened"
    /\ opener.transcript \in TestStarts
    /\ Len(transcript_prover) = Len(opener.transcript) + 2
    /\ \E v \in verdicts : v.op = "open" /\ v.res = "Ok"

(***************************************************************************)
(* Properties of normalize_and_verify.                                     *)
(***************************************************************************)
\* C29: for every s in [1, q) and point R, normalize_and_verify returns on success the
\* signature (x-coord(R), min(s, q - s)), whose s is at most q/2, and returns an error
\* exactly when that pair fails ECDSA verification under X.
C29_NormalizeAndVerify ==
    \A v \in verdicts :
        v.op = "normalize_and_verify" =>
            /\ v.out.res = "Ok" =>
                  /\ v.out.s = LowS(v.s)
                  /\ 2 * v.out.s <= Q
                  /\ v.out.Rx = XCoor(v.R)
            /\ v.out.res = "Err" <=> ~SecpVerify(v.msg, XCoor(v.R), LowS(v.s), v.X)
            /\ v.out.res = "Ok" <=> SecpVerify(v.msg, XCoor(v.R), LowS(v.s), v.X)

\* C33: ecdsa::verify returns a boolean for every Rx and s in [1, q), also when the
\* big-endian encoding of Rx is shorter than a coordinate (a leading zero byte).
C33_VerifyReturnsBoolean ==
    \A v \in verdicts :
        v.op = "ecdsa::verify" =>
            /\ v.out \in {"true", "false"}
            /\ v.out = "true" <=> SecpVerify(v.msg, v.Rx, v.s, v.X)

C34_CommitmentBoundToContext ==
    \A v \in verdicts :
        (v.op = "open" /\ v.altered \in {"label", "transcript"}) => v.res = "Err"

\* The honest opening was refused by an opener with the prover's label on the transcript
\* the prover continued with.
C34_Witness ==
    \E v \in verdicts :
        /\ v.op = "open"
        /\ v.altered = "transcript"
        /\ v.opener.label = proof_label
        /\ v.opener.transcript = transcript_prover
        /\ v.opener.commitment = commited.commitment
        /\ v.res = "Err"

\* The proof Alice1::new makes when the blinding entropy is e: prove on main's transcript
\* after the receive of Bob's commitment, for the witness list of the keys she drew.
AliceProof(e) ==
    Prove(Receive(calls[2].on.commitment, NewTranscript("ss_ecdsa"),
                  "ssecdsa_keygen_bob").transcript,
          "ssecdsa_keygen_alice", AliceKeygenWitness(AliceDrawn), e).proof

\* C35: the proof Alice1::new produces, converted to KeyGenMsg2 and back to CompactProof,
\* has the same challenge and the same list of (response, labelled statement) in the same
\* order; the KeyGenMsg2 she sends is the conversion of such a proof.
C35_KeyGenMsg2RoundTrip ==
    (Len(calls) >= 2 /\ calls[2].res = "Ok") =>
        /\ \E e \in BlindingPool : KeyGenMsg2From(AliceProof(e)).msg = calls[2].out
        /\ \A e \in BlindingPool :
              \E p \in {AliceProof(e)} :
                 /\ Len(p.responses) = 4
                 /\ KeyGenMsg2From(p).res = "Ok"
                 /\ CompactProofFromKeyGenMsg2(KeyGenMsg2From(p).msg).challenge = p.challenge
                 /\ CompactProofFromKeyGenMsg2(KeyGenMsg2From(p).msg).responses = p.responses

\* Bob1 was given Alice's KeyGenMsg2 as she sent it and converted it back to her proof,
\* whose DDH statement is over her redeem nonce point.
C35_Witness ==
    /\ Len(calls) >= 3
    /\ calls[3].by = "Bob1"
    /\ calls[3].res = "Ok"
    /\ calls[3].on = calls[2].out
    /\ \E e \in BlindingPool :
          /\ CompactProofFromKeyGenMsg2(calls[3].on) = AliceProof(e)
          /\ AliceProof(e).responses[4][2].statement.h = AliceDrawn.r_beta_redeem.public_key
          /\ AliceProof(e).responses[4][2].statement.h # G

\* C36: the opening Bob1::new keeps, converted to CommitmentOpening and then through
\* Alice's apply_labels_to_opening, has the same nonce, the same challenge and the same
\* list of (response, labelled statement) in the same order.
C36_OpeningRoundTrip ==
    \A i \in 1 .. Len(calls) :
        (calls[i].by = "Bob1") =>
            \E o \in {calls[i].self.commitment_opening} :
               /\ Len(o.proof.responses) = 4
               /\ CommitmentOpeningFrom(o).res = "Ok"
               /\ \E back \in {ApplyLabelsToOpening(CommitmentOpeningFrom(o).opening)} :
                     /\ back.nonce = o.nonce
                     /\ back.proof.challenge = o.proof.challenge
                     /\ back.proof.responses = o.proof.responses

\* Alice1 was given the conversion of the opening Bob1 kept, as Bob sent it.
C36_Witness ==
    /\ Len(calls) >= 4
    /\ calls[4].by = "Alice1"
    /\ calls[4].res = "Ok"
    /\ calls[4].on = calls[3].out
    /\ calls[4].on.commitment_opening
         = CommitmentOpeningFrom(calls[3].self.commitment_opening).opening
    /\ ApplyLabelsToOpening(calls[4].on.commitment_opening) = calls[3].self.commitment_opening
====
